---- MODULE Spec2Model ----
(***************************************************************************)
(* Routing and identity-remapping core of mcp-proxy-hub: discovery passes  *)
(* (tools, prompts, resources), the client maps they fill, and the call    *)
(* router that resolves a public name to a backend request.                *)
(***************************************************************************)
EXTENDS Integers, Sequences, FiniteSets, TLC

(***************************************************************************)
(* Bounds of the model                                                     *)
(***************************************************************************)
\* how many times the configuration file may be rewritten in one behaviour
MaxConfigChanges == 1
\* how many listTools passes may be started in one behaviour
MaxListPasses == 2
MaxRestarts == 1
\* how many more restartClient invocations may overlap one that is going on
MaxOverlapping == 1

(***************************************************************************)
(* Values                                                                  *)
(***************************************************************************)
Undefined == "undefined"

ServerNames == {"F1", "F2"}

\* ConnectedClient: the handle of one backend connection
\* (client is the Client object it wraps, gen tells a reconnection's handle
\* from the one it replaces)
ConnectedClient(n) == [name |-> n, gen |-> 0, client |-> "mcp-proxy-client"]

\* the pseudo client the custom (composite) tools are registered under
customClient == [name |-> "custom", gen |-> 0, client |-> "custom-client"]

\* a tool as a backend returns it from tools/list
Tool(n) == [name |-> n, description |-> "d-" \o n, inputSchema |-> "s-" \o n,
            originalName |-> Undefined]

\* what each backend answers to tools/list
\* a tool whose backend gives it no description
ToolWithoutDescription(n) == [Tool(n) EXCEPT !.description = Undefined]

BackendTools ==
  [F1 |-> << Tool("echo") >>, F2 |-> << Tool("echo"), Tool("t1") >>,
   custom |-> << ToolWithoutDescription("ct") >>]

\* a prompt as a backend returns it from prompts/list
Prompt(n) == [name |-> n, description |-> "d-" \o n]

\* what each backend answers to prompts/list
\* a prompt whose backend gives it no description
PromptWithoutDescription(n) == [name |-> n, description |-> Undefined]

BackendPrompts ==
  [F1 |-> << Prompt("p1") >>,
   F2 |-> << Prompt("p1"), PromptWithoutDescription("p2") >>]

\* a resource as a backend returns it from resources/list; name "" is absent
Resource(u, n) == [uri |-> u, name |-> n]

\* what each backend answers to resources/list
BackendResources ==
  [F1 |-> << Resource("r1", "n1") >>,
   F2 |-> << Resource("r1", ""), Resource("r2", "n2") >>]

\* entries of exposedTools: a plain string, or an {original, exposed} mapping
Str(n) == [original |-> n, exposed |-> Undefined]
Mapping(a, b) == [original |-> a, exposed |-> b]

\* ServerConfig: the exposure policy of one backend
ServerConfig(hasE, e, hasH, h) ==
  [defined |-> TRUE, hasExposed |-> hasE, exposedTools |-> e,
   hasHidden |-> hasH, hiddenTools |-> h]

\* config.mcpServers[name] is undefined
NoServerConfig ==
  [defined |-> FALSE, hasExposed |-> FALSE, exposedTools |-> <<>>,
   hasHidden |-> FALSE, hiddenTools |-> <<>>]

\* the policies the configuration may give each server
ServerConfigChoices ==
  [F1 |->
     { NoServerConfig,
       ServerConfig(FALSE, <<>>, FALSE, <<>>),
       ServerConfig(TRUE, <<Mapping("echo", "echoF2")>>, FALSE, <<>>) },
   F2 |->
     { NoServerConfig,
       ServerConfig(TRUE, <<Str("t1")>>, FALSE, <<>>),
       ServerConfig(TRUE, <<Mapping("echo", "echoF2")>>, FALSE, <<>>),
       ServerConfig(FALSE, <<>>, TRUE, <<"echo">>),
       ServerConfig(TRUE, <<Str("echo")>>, TRUE, <<"echo", "t1">>),
       ServerConfig(TRUE, <<Mapping("echo", "echoF2")>>, TRUE, <<"echoF2">>),
       ServerConfig(TRUE, <<Mapping("echo", "echoF2")>>, TRUE, <<"echo">>) }]

\* the composite tools of the configuration (config.tools), in key order
ToolsConfig ==
  << [name |-> "C", hasDescription |-> FALSE, description |-> Undefined,
      subtools |->
        << [server |-> "F2",
            tools |-> << [name |-> "t1", description |-> Undefined] >>],
           [server |-> "Z",
            tools |-> << [name |-> "z1", description |-> "zdesc"] >>] >>],
     [name |-> "D", hasDescription |-> TRUE, description |-> "ddesc",
      subtools |->
        << [server |-> "F2",
            tools |-> << [name |-> "echo", description |-> "edesc"] >>] >>] >>

\* request.params._meta of a caller
NoMeta == [defined |-> FALSE, progressToken |-> Undefined]
Meta(t) == [defined |-> TRUE, progressToken |-> t]

\* a value that is a number, and typeof of the values a field can hold
Number123 == "123 (number)"
TypeOf(v) ==
  IF v = Undefined THEN "undefined"
  ELSE IF v = Number123 THEN "number"
  ELSE "string"

\* request.params.arguments of a tools/call: absent, or an object whose
\* fields server, tool and args may each be absent, or a value that is not
\* an object
NoArguments ==
  [defined |-> FALSE, isObject |-> FALSE, server |-> Undefined,
   tool |-> Undefined, hasArgs |-> FALSE, args |-> <<>>]
Arguments(s, t, hasA, a) ==
  [defined |-> TRUE, isObject |-> TRUE, server |-> s, tool |-> t,
   hasArgs |-> hasA, args |-> a]
NotAnObject ==
  [defined |-> TRUE, isObject |-> FALSE, server |-> Undefined,
   tool |-> Undefined, hasArgs |-> FALSE, args |-> <<>>]

\* the tools/call requests a caller issues: name, arguments, _meta
CallRequest(n, a, m) == [name |-> n, arguments |-> a, meta |-> m]
CallRequests ==
  { CallRequest("echo", Arguments(Undefined, Undefined, TRUE, <<"${HOME}">>),
                Meta("tok")),
    CallRequest("echoF2", Arguments(Undefined, Undefined, TRUE, <<"x">>),
                NoMeta),
    CallRequest("t1", NoArguments, NoMeta),
    CallRequest("C", Arguments("F2", "t1", TRUE, <<"x">>), Meta("tok")),
    CallRequest("C", Arguments("F2", "t1", FALSE, <<>>), NoMeta),
    CallRequest("C", Arguments("Z", "z1", TRUE, <<"x">>), NoMeta) }

(***************************************************************************)
(* State                                                                   *)
(***************************************************************************)
VARIABLES
  connectedClients,       \* the array of live handles handed to the handlers
  config,                 \* config.mcpServers: server name -> ServerConfig
  configTools,            \* config.tools: the composite tools, in key order
  configChanges,          \* number of rewrites of the configuration so far
  passesBegun,            \* number of listTools passes started so far
  toolToClientMap,        \* ClientMaps.toolToClientMap
  customToolToClientMap,  \* ClientMaps.customToolToClientMap
  toolMappings,           \* client.toolMappings of every handle that has one
  pass,                   \* the handleListToolsRequest invocations in flight
  listResult,             \* what the last finished listTools pass returned
  call,                   \* the last handleToolCall invocation
  promptToClientMap,      \* ClientMaps.promptToClientMap
  promptPass,             \* the handleListPromptsRequest invocation in flight
  promptResult,           \* what the last finished listPrompts pass returned
  resourceToClientMap,    \* ClientMaps.resourceToClientMap
  resourcePass,           \* the resources/list handler invocation in flight
  resourceResult,         \* what the last finished listResources pass returned
  registry,               \* ClientMaps.connectedClients: the set of handles
  closed,                 \* the handles whose cleanup has closed the transport
  restart,                \* the restartClient invocation of each server
  restartsBegun,          \* number of restartClient invocations so far
  secondRestart,          \* a restartClient invocation that overlaps restart
  everConnected,          \* every handle a connection attempt has produced
  connecting,             \* the connectWithRetry run of each server at startup
  promptCall,             \* the last handleGetPromptRequest invocation
  resourceCall            \* the last resources/read handler invocation

\* the state of the tools side, of the prompts side and of the resources side
toolVars == << passesBegun, toolToClientMap, customToolToClientMap,
               toolMappings, pass, listResult, call >>
promptVars == << promptToClientMap, promptPass, promptResult >>
resourceVars == << resourceToClientMap, resourcePass, resourceResult >>
restartVars == << registry, closed, restart, restartsBegun, secondRestart,
                 everConnected, connecting >>
getVars == << promptCall, resourceCall >>

vars == << connectedClients, config, configTools, configChanges, toolVars,
           promptVars, resourceVars, restartVars, getVars >>

(***************************************************************************)
(* Helpers on sequences and maps                                           *)
(***************************************************************************)
Range(s) == { s[i] : i \in 1..Len(s) }

Range2(f) == { f[x] : x \in DOMAIN f }

Includes(s, x) == \E i \in 1..Len(s) : s[i] = x

\* Map.set(key, value)
MapSet(m, k, v) == (k :> v) @@ m

EmptyMap == << >>

(***************************************************************************)
(* Exposure filtering and renaming at discovery time                       *)
(***************************************************************************)
RECURSIVE getExposedToolInfoFrom(_, _, _)
getExposedToolInfoFrom(toolName, exposedTools, i) ==
  IF i > Len(exposedTools)
    THEN [isExposed |-> FALSE, exposedName |-> Undefined]
    ELSE IF exposedTools[i].original = toolName
           THEN [isExposed |-> TRUE, exposedName |-> exposedTools[i].exposed]
           ELSE getExposedToolInfoFrom(toolName, exposedTools, i + 1)

getExposedToolInfo(toolName, exposedTools) ==
  getExposedToolInfoFrom(toolName, exposedTools, 1)

\* faulty variant: the exposed name of a mapping is not applied
ExposeToolKeepName(tool, exposedTools) ==
  LET info == getExposedToolInfo(tool.name, exposedTools)
  IN  IF ~info.isExposed THEN << >> ELSE << tool >>

\* one tool of the allow-list branch: dropped (a null entry), renamed or kept
ExposeTool(tool, exposedTools) ==
  LET info == getExposedToolInfo(tool.name, exposedTools)
  IN  IF ~info.isExposed THEN << >>
      ELSE IF info.exposedName # Undefined
             THEN << [tool EXCEPT !.name = info.exposedName,
                                  !.originalName = tool.name] >>
             ELSE << tool >>

\* faulty variant: the entries come out in the opposite order
RECURSIVE ExposeToolsReversed(_, _)
ExposeToolsReversed(tools, exposedTools) ==
  IF tools = << >> THEN << >>
  ELSE ExposeToolsReversed(Tail(tools), exposedTools)
         \o ExposeTool(Head(tools), exposedTools)

RECURSIVE ExposeTools(_, _)
ExposeTools(tools, exposedTools) ==
  IF tools = << >> THEN << >>
  ELSE ExposeTool(Head(tools), exposedTools)
         \o ExposeTools(Tail(tools), exposedTools)

RECURSIVE WithoutHidden(_, _)
WithoutHidden(tools, hiddenTools) ==
  IF tools = << >> THEN << >>
  ELSE (IF Includes(hiddenTools, Head(tools).name) THEN << >>
        ELSE << Head(tools) >>)
         \o WithoutHidden(Tail(tools), hiddenTools)

\* faulty variant: the deny-list is applied after the allow-list
filterToolsBothLists(tools, serverConfig) ==
  IF ~serverConfig.defined THEN tools
  ELSE LET exposed == IF serverConfig.hasExposed
                        THEN ExposeTools(
                               WithoutHidden(tools, serverConfig.hiddenTools),
                               serverConfig.exposedTools)
                        ELSE tools
       IN  IF serverConfig.hasHidden
             THEN WithoutHidden(exposed, serverConfig.hiddenTools)
             ELSE exposed

filterTools(tools, serverConfig) ==
  IF ~serverConfig.defined THEN tools
  ELSE IF serverConfig.hasExposed
         THEN ExposeTools(tools, serverConfig.exposedTools)
  ELSE IF serverConfig.hasHidden
         THEN WithoutHidden(tools, serverConfig.hiddenTools)
  ELSE tools

(***************************************************************************)
(* ClientMaps                                                              *)
(***************************************************************************)
\* faulty variant: the tool map is not cleared
clearToolMapKeep(map) == map

clearToolMap(map) == EmptyMap

\* faulty variant: a name that is registered keeps its first handle
mapToolToClientKeepFirst(map, toolName, client) ==
  IF toolName \in DOMAIN map THEN map ELSE MapSet(map, toolName, client)

mapToolToClient(map, toolName, client) == MapSet(map, toolName, client)

mapCustomToolToClient(map, customToolKey, client) ==
  MapSet(map, customToolKey, client)

\* faulty variant: the key is built without the composite's name
customToolKeyOfSubtool(customToolName, serverName, toolName) ==
  serverName \o ":" \o toolName

\* the key of one sub-tool route of a composite tool
customToolKeyOf(customToolName, serverName, toolName) ==
  customToolName \o ":" \o serverName \o ":" \o toolName

(***************************************************************************)
(* One backend's answer inside a discovery pass                            *)
(***************************************************************************)
\* faulty variant: a renamed tool is registered under its original name
RECURSIVE RegisterToolsByOriginalName(_, _, _)
RegisterToolsByOriginalName(map, tools, client) ==
  IF tools = << >> THEN map
  ELSE RegisterToolsByOriginalName(
         mapToolToClient(map,
           IF Head(tools).originalName # Undefined
             THEN Head(tools).originalName ELSE Head(tools).name,
           client),
         Tail(tools), client)

\* faulty variant: the answer of a backend replaces the tool map
RECURSIVE RegisterToolsFresh(_, _, _)
RegisterToolsFresh(map, tools, client) ==
  IF tools = << >> THEN EmptyMap
  ELSE mapToolToClient(RegisterToolsFresh(map, Tail(tools), client),
                       Head(tools).name, client)

\* the tool map after every surviving tool of one backend was registered
RECURSIVE RegisterTools(_, _, _)
RegisterTools(map, tools, client) ==
  IF tools = << >> THEN map
  ELSE RegisterTools(mapToolToClient(map, Head(tools).name, client),
                     Tail(tools), client)

\* faulty variant: the renames of a pass are not stored on the handle
StoreMappingsNone(mappings, tools) == mappings

\* client.toolMappings after the renamed tools of one backend were stored
RECURSIVE StoreMappings(_, _)
StoreMappings(mappings, tools) ==
  IF tools = << >> THEN mappings
  ELSE StoreMappings(
         IF Head(tools).originalName # Undefined
           THEN MapSet(mappings, Head(tools).name, Head(tools).originalName)
           ELSE mappings,
         Tail(tools))

HasRenamed(tools) == \E i \in 1..Len(tools) : tools[i].originalName # Undefined

\* the description of a listed tool: the backend marker, then the text
\* description: `[${connectedClient.name}] ${tool.description || ''}`
PrefixDescription(tool, clientName) ==
  [tool EXCEPT !.description =
     "[" \o clientName \o "] "
       \o (IF tool.description = Undefined THEN "" ELSE tool.description)]

ToolsWithSource(tools, clientName) ==
  [i \in 1..Len(tools) |-> PrefixDescription(tools[i], clientName)]

WithServerName(tools, clientName) ==
  [i \in 1..Len(tools) |-> [serverName |-> clientName, tool |-> tools[i]]]

(***************************************************************************)
(* Composite ("custom") tools                                              *)
(***************************************************************************)
DefaultDescription == "Use the following tools for development."

\* connectedClients.find((c) => c.name === serverName)
RECURSIVE FindClient(_, _)
FindClient(clients, serverName) ==
  IF clients = << >> THEN [found |-> FALSE, client |-> customClient]
  ELSE IF Head(clients).name = serverName
         THEN [found |-> TRUE, client |-> Head(clients)]
         ELSE FindClient(Tail(clients), serverName)

\* allTools.find((t) => t.serverName === serverName && t.name === toolName)
RECURSIVE FindSameTool(_, _, _)
FindSameTool(allTools, serverName, toolName) ==
  IF allTools = << >> THEN [found |-> FALSE, tool |-> Tool(Undefined)]
  ELSE IF Head(allTools).serverName = serverName
          /\ Head(allTools).tool.name = toolName
         THEN [found |-> TRUE, tool |-> Head(allTools).tool]
         ELSE FindSameTool(Tail(allTools), serverName, toolName)

getToolDescription(tool, serverName, toolName, allTools) ==
  IF tool.description # Undefined THEN "\n" \o tool.description
  ELSE LET sameTool == FindSameTool(allTools, serverName, toolName)
       IN  IF sameTool.found THEN "\n" \o sameTool.tool.description
           ELSE "\n"

\* the text one configured sub-tool adds to the composite's description
SubtoolText(tool, serverName, allTools) ==
  LET sameTool == FindSameTool(allTools, serverName, tool.name)
  IN  "\n### " \o tool.name \o "\n#### description"
        \o getToolDescription(tool, serverName, tool.name, allTools)
        \o (IF sameTool.found
              THEN "\n#### inputSchema\n" \o sameTool.tool.inputSchema \o "\n"
              ELSE "")

RECURSIVE SubtoolsText(_, _, _)
SubtoolsText(tools, serverName, allTools) ==
  IF tools = << >> THEN ""
  ELSE SubtoolText(Head(tools), serverName, allTools)
         \o SubtoolsText(Tail(tools), serverName, allTools)

\* faulty variant: a server that is not connected is described like any other
ServerTextSilent(subtool, clients, allTools) ==
  "\n## " \o subtool.server
    \o SubtoolsText(subtool.tools, subtool.server, allTools)

\* the text one configured server adds to the composite's description
ServerText(subtool, clients, allTools) ==
  (IF ~FindClient(clients, subtool.server).found
     THEN "\n*Warning: Server " \o subtool.server
            \o " not found in connected clients*"
     ELSE "")
    \o "\n## " \o subtool.server
    \o SubtoolsText(subtool.tools, subtool.server, allTools)

RECURSIVE ServersText(_, _, _)
ServersText(subtools, clients, allTools) ==
  IF subtools = << >> THEN ""
  ELSE ServerText(Head(subtools), clients, allTools)
         \o ServersText(Tail(subtools), clients, allTools)

\* the sub-tool routes one configured server registers, if it is connected
RECURSIVE MapSubtools(_, _, _, _)
MapSubtools(map, customToolName, subtool, clients) ==
  LET c == FindClient(clients, subtool.server)
  IN  IF subtool.tools = << >> \/ ~c.found THEN map
      ELSE MapSubtools(
             mapCustomToolToClient(map,
               customToolKeyOf(customToolName, subtool.server,
                               Head(subtool.tools).name),
               c.client),
             customToolName,
             [subtool EXCEPT !.tools = Tail(subtool.tools)], clients)

RECURSIVE MapServers(_, _, _, _)
MapServers(map, customToolName, subtools, clients) ==
  IF subtools = << >> THEN map
  ELSE MapServers(MapSubtools(map, customToolName, Head(subtools), clients),
                  customToolName, Tail(subtools), clients)

\* faulty variant: a composite whose sub-tool routes are already registered
\* is taken as built and is not registered in the tool map again
createCustomToolOnce(toolConfig, clients, allTools, maps) ==
  [tool |->
     [name |-> toolConfig.name,
      description |->
        (IF toolConfig.hasDescription THEN toolConfig.description
         ELSE DefaultDescription)
          \o "\n\n# Available subtools"
          \o ServersText(toolConfig.subtools, clients, allTools),
      inputSchema |-> "server,tool,args",
      originalName |-> Undefined],
   customMap |->
     MapServers(maps.customMap, toolConfig.name, toolConfig.subtools, clients),
   toolMap |->
     IF MapServers(maps.customMap, toolConfig.name, toolConfig.subtools,
                   clients) = maps.customMap
        /\ maps.customMap # EmptyMap
       THEN maps.toolMap
       ELSE mapToolToClient(maps.toolMap, toolConfig.name, customClient),
   built |-> TRUE]

\* the entry of a server under subtools has its list of tools
HasTools(subtool) == "tools" \in DOMAIN subtool

\* subtool.tools.forEach throws for an entry without the list
Raises(toolConfig) ==
  \E j \in 1..Len(toolConfig.subtools) : ~HasTools(toolConfig.subtools[j])

\* the entries gone through before the first one that makes it throw
RECURSIVE BeforeItRaises(_)
BeforeItRaises(subtools) ==
  IF subtools = << >> \/ ~HasTools(Head(subtools)) THEN << >>
  ELSE << Head(subtools) >> \o BeforeItRaises(Tail(subtools))

\* createCustomTool: the catalog entry and the two maps after it was built;
\* when building throws, null is returned, the sub-tool routes registered up
\* to then stay and the name is not registered
createCustomTool(toolConfig, clients, allTools, maps) ==
  IF Raises(toolConfig)
    THEN [tool |-> Tool(Undefined),
          customMap |->
            MapServers(maps.customMap, toolConfig.name,
                       BeforeItRaises(toolConfig.subtools), clients),
          toolMap |-> maps.toolMap,
          built |-> FALSE]
    ELSE
  [tool |->
     [name |-> toolConfig.name,
      description |->
        (IF toolConfig.hasDescription THEN toolConfig.description
         ELSE DefaultDescription)
          \o "\n\n# Available subtools"
          \o ServersText(toolConfig.subtools, clients, allTools),
      inputSchema |-> "server,tool,args",
      originalName |-> Undefined],
   customMap |->
     MapServers(maps.customMap, toolConfig.name, toolConfig.subtools, clients),
   toolMap |-> mapToolToClient(maps.toolMap, toolConfig.name, customClient),
   built |-> TRUE]

\* faulty variant: the first composite that cannot be built ends the loop
RECURSIVE createCustomToolsUntilRaise(_, _, _, _)
createCustomToolsUntilRaise(toolsConfig, clients, allTools, maps) ==
  IF toolsConfig = << >>
    THEN [tools |-> << >>, customMap |-> maps.customMap,
          toolMap |-> maps.toolMap]
    ELSE LET one  == createCustomTool(Head(toolsConfig), clients, allTools, maps)
             rest == createCustomToolsUntilRaise(
                       IF one.built THEN Tail(toolsConfig) ELSE << >>,
                       clients, allTools,
                       [customMap |-> one.customMap, toolMap |-> one.toolMap])
         IN  [tools |-> (IF one.built THEN << one.tool >> ELSE << >>)
                          \o rest.tools,
              customMap |-> rest.customMap, toolMap |-> rest.toolMap]

\* createCustomTools: every configured composite, in configuration order
RECURSIVE createCustomTools(_, _, _, _)
createCustomTools(toolsConfig, clients, allTools, maps) ==
  IF toolsConfig = << >>
    THEN [tools |-> << >>, customMap |-> maps.customMap,
          toolMap |-> maps.toolMap]
    ELSE LET one  == createCustomTool(Head(toolsConfig), clients, allTools, maps)
             rest == createCustomTools(Tail(toolsConfig), clients, allTools,
                       [customMap |-> one.customMap, toolMap |-> one.toolMap])
         IN  [tools |-> (IF one.built THEN << one.tool >> ELSE << >>)
                          \o rest.tools,
              customMap |-> rest.customMap, toolMap |-> rest.toolMap]

(***************************************************************************)
(* Discovery of tools: handleListToolsRequest                              *)
(***************************************************************************)
PassIds == {1, 2}

\* error codes of a failing list request: "Method not found", and one other
MethodNotFound == -32601
OtherFailure == -32603
ErrorCodes == {MethodNotFound, OtherFailure}

IdleConfig == [s \in ServerNames |-> NoServerConfig]

IdlePass ==
  [pc |-> "idle", clients |-> << >>, config |-> IdleConfig, idx |-> 0,
   tools |-> << >>, availableTools |-> << >>, failed |-> {},
   unsupported |-> {}, logged |-> {}, overlapped |-> FALSE]

NoListResult ==
  [returned |-> FALSE, tools |-> << >>, clients |-> << >>,
   config |-> IdleConfig, failed |-> {}, unsupported |-> {}, logged |-> {},
   clean |-> FALSE, current |-> FALSE, map |-> EmptyMap, repeat |-> FALSE]

NoCall ==
  [status |-> "none", name |-> Undefined, arguments |-> NoArguments,
   meta |-> NoMeta, requests |-> << >>, error |-> Undefined,
   envVars |-> << >>, result |-> Undefined, rejection |-> Undefined]

InFlight == { p \in PassIds : pass[p].pc # "idle" }

Names(tools) == { tools[i].name : i \in 1..Len(tools) }

\* the end of a pass: the composite tools are built and the result returned
FinishPass(p, ps, toolMap, passes) ==
  LET custom == createCustomTools(configTools, ps.clients, ps.availableTools,
                  [customMap |-> customToolToClientMap, toolMap |-> toolMap])
      tools  == ps.tools \o custom.tools
      isRepeat == /\ listResult.returned /\ listResult.clean
                  /\ ~ps.overlapped
                  /\ listResult.clients = ps.clients
                  /\ listResult.config = ps.config
                  /\ listResult.failed = ps.failed
  IN  /\ toolToClientMap' = custom.toolMap
      /\ customToolToClientMap' = custom.customMap
      /\ pass' = [passes EXCEPT ![p] = IdlePass]
      /\ listResult' =
           [returned |-> TRUE, tools |-> tools, clients |-> ps.clients,
            config |-> ps.config, failed |-> ps.failed,
            unsupported |-> ps.unsupported, logged |-> ps.logged,
            clean |-> ~ps.overlapped, current |-> TRUE,
            map |-> custom.toolMap, repeat |-> isRepeat]

\* the handler is entered: the tool map is cleared, the configuration is
\* loaded and the request to the first backend is issued
ListToolsBegin(p) ==
  /\ pass[p].pc = "idle"
  /\ passesBegun < MaxListPasses
  /\ passesBegun' = passesBegun + 1
  /\ LET others == InFlight
         ps == [IdlePass EXCEPT !.pc = "fetch", !.clients = connectedClients,
                                !.config = config, !.idx = 1,
                                !.overlapped = (others # {})]
         marked == [q \in PassIds |->
                      IF q \in others
                        THEN [pass[q] EXCEPT !.overlapped = TRUE]
                        ELSE pass[q]]
     IN  IF connectedClients = << >>
           THEN /\ FinishPass(p, ps, clearToolMap(toolToClientMap), marked)
           ELSE /\ toolToClientMap' = clearToolMap(toolToClientMap)
                /\ pass' = [marked EXCEPT ![p] = ps]
                /\ listResult' = [listResult EXCEPT !.current = FALSE]
                /\ UNCHANGED customToolToClientMap
  /\ UNCHANGED << connectedClients, config, configTools, configChanges, toolMappings,
                  call, promptVars, resourceVars,
                  restartVars, getVars >>

\* the backend the pass is waiting for answers (ok) or its request fails
\* with an error of this code, which the catch block logs
ListToolsSettled(p, ok, code) ==
  /\ pass[p].pc = "fetch"
  /\ ok => pass[p].clients[pass[p].idx] \notin closed
  /\ LET ps       == pass[p]
         client   == ps.clients[ps.idx]
         result   == BackendTools[client.name]
         filtered == filterTools(result, ps.config[client.name])
         newMap   == IF ok THEN RegisterTools(toolToClientMap, filtered, client)
                     ELSE toolToClientMap
         next     == [ps EXCEPT
                        !.idx = ps.idx + 1,
                        !.tools =
                          IF ok THEN @ \o ToolsWithSource(filtered, client.name)
                          ELSE @,
                        !.availableTools =
                          IF ok THEN @ \o WithServerName(result, client.name)
                          ELSE @,
                        !.failed = IF ok THEN @ ELSE @ \cup {client.name},
                        !.unsupported =
                          IF ~ok /\ code = MethodNotFound
                            THEN @ \cup {client.name} ELSE @,
                        !.logged = IF ok THEN @ ELSE @ \cup {client.name}]
     IN  /\ toolMappings' =
              IF ok /\ HasRenamed(filtered)
                THEN MapSet(toolMappings, client,
                       StoreMappings(
                         IF client \in DOMAIN toolMappings
                           THEN toolMappings[client] ELSE EmptyMap,
                         filtered))
                ELSE toolMappings
         /\ IF next.idx > Len(ps.clients)
              THEN FinishPass(p, next, newMap, pass)
              ELSE /\ toolToClientMap' = newMap
                   /\ pass' = [pass EXCEPT ![p] = next]
                   /\ UNCHANGED << customToolToClientMap, listResult >>
  /\ UNCHANGED << connectedClients, config, configTools, configChanges, passesBegun, call,
                  promptVars, resourceVars,
                  restartVars, getVars >>

\* the same, the request failing for a reason other than an unsupported
\* method
ListToolsResponse(p, ok) == ListToolsSettled(p, ok, OtherFailure)

(***************************************************************************)
(* Environment-variable substitution in arguments and results              *)
(***************************************************************************)
\* serverConfig.envVars of each configured server
ServerEnvVars ==
  [F1 |-> << [name |-> "HOME", value |-> "/h", expand |-> TRUE,
              unexpand |-> TRUE] >>,
   F2 |-> << >>, custom |-> << >>]

EnvVarsOf(serverName, serverConfig) ==
  IF serverConfig.defined THEN ServerEnvVars[serverName] ELSE << >>

RECURSIVE expandEnvVarsInString(_, _)
expandEnvVarsInString(str, envVarConfigs) ==
  IF envVarConfigs = << >> THEN str
  ELSE LET c == Head(envVarConfigs)
       IN  expandEnvVarsInString(
             IF c.expand /\ str = "${" \o c.name \o "}" THEN c.value ELSE str,
             Tail(envVarConfigs))

RECURSIVE unexpandEnvVarsInString(_, _)
unexpandEnvVarsInString(str, envVarConfigs) ==
  IF envVarConfigs = << >> THEN str
  ELSE LET c == Head(envVarConfigs)
       IN  unexpandEnvVarsInString(
             IF c.unexpand /\ str = c.value THEN "${" \o c.name \o "}" ELSE str,
             Tail(envVarConfigs))

\* expandEnvVars on an arguments object: every string in it is rewritten
expandEnvVars(obj, envVarConfigs) ==
  IF envVarConfigs = << >> \/ ~obj.defined THEN obj
  ELSE [obj EXCEPT
          !.server = IF @ = Undefined THEN @
                     ELSE expandEnvVarsInString(@, envVarConfigs),
          !.tool   = IF @ = Undefined THEN @
                     ELSE expandEnvVarsInString(@, envVarConfigs),
          !.args   = [i \in 1..Len(@) |->
                        expandEnvVarsInString(@[i], envVarConfigs)]]

unexpandEnvVars(result, envVarConfigs) ==
  IF envVarConfigs = << >> THEN result
  ELSE unexpandEnvVarsInString(result, envVarConfigs)

\* the empty object
EmptyObject == Arguments(Undefined, Undefined, FALSE, << >>)

(***************************************************************************)
(* Call routing: handleToolCall                                            *)
(***************************************************************************)
\* validateToolAccess: the error it throws, or Undefined when it returns
validateToolAccess(toolName, originalToolName, serverConfig) ==
  LET nameToCheck == IF originalToolName # Undefined THEN originalToolName
                     ELSE toolName
      exposedTools == [i \in 1..Len(serverConfig.exposedTools) |->
                         serverConfig.exposedTools[i].original]
  IN  IF ~serverConfig.defined THEN Undefined
      ELSE IF serverConfig.hasExposed /\ ~Includes(exposedTools, nameToCheck)
             THEN "Tool " \o toolName \o " is not exposed by server"
      ELSE IF serverConfig.hasHidden
              /\ Includes(serverConfig.hiddenTools, nameToCheck)
             THEN "Tool " \o toolName \o " is hidden"
      ELSE Undefined

\* ToolService.filterTools: the tools of the backend's answer that are listed
ToolServiceFilterTools(tools, serverConfig) ==
  IF ~serverConfig.defined THEN tools
  ELSE IF serverConfig.hasExposed
    THEN LET exposedToolNames ==
               [i \in 1..Len(serverConfig.exposedTools) |->
                  serverConfig.exposedTools[i].original]
         IN  SelectSeq(tools, LAMBDA t : Includes(exposedToolNames, t.name))
  ELSE IF serverConfig.hasHidden
    THEN SelectSeq(tools,
                   LAMBDA t : ~Includes(serverConfig.hiddenTools, t.name))
  ELSE tools

\* ToolService.isToolAllowed
isToolAllowed(toolName, clientName, serverConfigs) ==
  LET serverConfig == serverConfigs[clientName]
      exposedToolNames ==
        [i \in 1..Len(serverConfig.exposedTools) |->
           serverConfig.exposedTools[i].original]
  IN  IF ~serverConfig.defined THEN TRUE
      ELSE IF serverConfig.hasExposed
        THEN Includes(exposedToolNames, toolName)
      ELSE IF serverConfig.hasHidden
              /\ Includes(serverConfig.hiddenTools, toolName)
        THEN FALSE
      ELSE TRUE

\* faulty variant: the request carries the public name
executeToolCallPublicName(toolName, args, client, meta, originalToolName) ==
  [to |-> client, method |-> "tools/call", name |-> toolName,
   arguments |-> args, meta |-> meta]

\* the tools/call request executeToolCall sends
executeToolCall(toolName, args, client, meta, originalToolName) ==
  [to |-> client, method |-> "tools/call",
   name |-> IF originalToolName # Undefined THEN originalToolName
            ELSE toolName,
   arguments |-> args, meta |-> meta]

\* faulty variant: the field tool is checked before the field server
validateCustomToolArgsToolFirst(args) ==
  IF TypeOf(args.tool) # "string"
    THEN "Invalid arguments: tool must be a string"
  ELSE IF TypeOf(args.server) # "string"
    THEN "Invalid arguments: server must be a string"
  ELSE Undefined

\* validateCustomToolArgs: the error it throws, or Undefined
validateCustomToolArgs(args) ==
  IF TypeOf(args.server) # "string"
    THEN "Invalid arguments: server must be a string"
  ELSE IF TypeOf(args.tool) # "string"
    THEN "Invalid arguments: tool must be a string"
  ELSE Undefined

\* faulty variant: the whole arguments object is forwarded, not its args
handleCustomToolCallWholeArgs(customToolName, requestArgs, meta) ==
  LET customToolKey ==
        customToolKeyOf(customToolName, requestArgs.server, requestArgs.tool)
  IN  IF ~requestArgs.defined
        THEN [error |-> "Missing required parameters", requests |-> << >>,
              envVars |-> << >>]
      ELSE IF ~requestArgs.isObject
        THEN [error |-> "Invalid arguments: arguments must be an object",
              requests |-> << >>, envVars |-> << >>]
      ELSE IF validateCustomToolArgs(requestArgs) # Undefined
        THEN [error |-> validateCustomToolArgs(requestArgs),
              requests |-> << >>, envVars |-> << >>]
      ELSE IF customToolKey \notin DOMAIN customToolToClientMap
        THEN [error |-> "Unknown subtool: " \o requestArgs.server \o "/"
                          \o requestArgs.tool \o " for tool "
                          \o customToolName,
              requests |-> << >>, envVars |-> << >>]
      ELSE [error |-> Undefined, envVars |-> << >>,
            requests |->
              << [to |-> customToolToClientMap[customToolKey],
                  method |-> "tools/call",
                  name |-> requestArgs.tool,
                  arguments |-> requestArgs,
                  meta |-> Meta(meta.progressToken)] >>]

\* faulty variant: the sub-tool route is looked up under every composite
handleCustomToolCallAnyComposite(customToolName, requestArgs, meta) ==
  LET keys ==
        { customToolKeyOf(ToolsConfig[i].name, requestArgs.server,
                          requestArgs.tool) : i \in 1..Len(ToolsConfig) }
          \cap DOMAIN customToolToClientMap
  IN  IF ~requestArgs.defined
        THEN [error |-> "Missing required parameters", requests |-> << >>,
              envVars |-> << >>]
      ELSE IF ~requestArgs.isObject
        THEN [error |-> "Invalid arguments: arguments must be an object",
              requests |-> << >>, envVars |-> << >>]
      ELSE IF validateCustomToolArgs(requestArgs) # Undefined
        THEN [error |-> validateCustomToolArgs(requestArgs),
              requests |-> << >>, envVars |-> << >>]
      ELSE IF keys = {}
        THEN [error |-> "Unknown subtool: " \o requestArgs.server \o "/"
                          \o requestArgs.tool \o " for tool "
                          \o customToolName,
              requests |-> << >>, envVars |-> << >>]
      ELSE [error |-> Undefined, envVars |-> << >>,
            requests |->
              << [to |-> customToolToClientMap[CHOOSE k \in keys : TRUE],
                  method |-> "tools/call",
                  name |-> requestArgs.tool,
                  arguments |->
                    IF requestArgs.hasArgs
                      THEN Arguments(Undefined, Undefined, TRUE,
                                     requestArgs.args)
                      ELSE EmptyObject,
                  meta |-> Meta(meta.progressToken)] >>]

\* faulty variant: the sub-tool is checked against the policy of its server
handleCustomToolCallChecked(customToolName, requestArgs, meta) ==
  LET customToolKey ==
        customToolKeyOf(customToolName, requestArgs.server, requestArgs.tool)
  IN  IF ~requestArgs.defined
        THEN [error |-> "Missing required parameters", requests |-> << >>,
              envVars |-> << >>]
      ELSE IF ~requestArgs.isObject
        THEN [error |-> "Invalid arguments: arguments must be an object",
              requests |-> << >>, envVars |-> << >>]
      ELSE IF validateCustomToolArgs(requestArgs) # Undefined
        THEN [error |-> validateCustomToolArgs(requestArgs),
              requests |-> << >>, envVars |-> << >>]
      ELSE IF customToolKey \notin DOMAIN customToolToClientMap
        THEN [error |-> "Unknown subtool: " \o requestArgs.server \o "/"
                          \o requestArgs.tool \o " for tool "
                          \o customToolName,
              requests |-> << >>, envVars |-> << >>]
      ELSE IF validateToolAccess(requestArgs.tool, Undefined,
                                 config[requestArgs.server]) # Undefined
        THEN [error |-> validateToolAccess(requestArgs.tool, Undefined,
                                           config[requestArgs.server]),
              requests |-> << >>, envVars |-> << >>]
      ELSE [error |-> Undefined, envVars |-> << >>,
            requests |->
              << [to |-> customToolToClientMap[customToolKey],
                  method |-> "tools/call",
                  name |-> requestArgs.tool,
                  arguments |->
                    IF requestArgs.hasArgs
                      THEN Arguments(Undefined, Undefined, TRUE,
                                     requestArgs.args)
                      ELSE EmptyObject,
                  meta |-> Meta(meta.progressToken)] >>]

\* handleCustomToolCall up to its backend request: an error or one request
handleCustomToolCall(customToolName, requestArgs, meta) ==
  LET customToolKey ==
        customToolKeyOf(customToolName, requestArgs.server, requestArgs.tool)
  IN  IF ~requestArgs.defined
        THEN [error |-> "Missing required parameters", requests |-> << >>,
              envVars |-> << >>]
      ELSE IF ~requestArgs.isObject
        THEN [error |-> "Invalid arguments: arguments must be an object",
              requests |-> << >>, envVars |-> << >>]
      ELSE IF validateCustomToolArgs(requestArgs) # Undefined
        THEN [error |-> validateCustomToolArgs(requestArgs),
              requests |-> << >>, envVars |-> << >>]
      ELSE IF customToolKey \notin DOMAIN customToolToClientMap
        THEN [error |-> "Unknown subtool: " \o requestArgs.server \o "/"
                          \o requestArgs.tool \o " for tool "
                          \o customToolName,
              requests |-> << >>, envVars |-> << >>]
      ELSE [error |-> Undefined, envVars |-> << >>,
            requests |->
              << [to |-> customToolToClientMap[customToolKey],
                  method |-> "tools/call",
                  name |-> requestArgs.tool,
                  arguments |->
                    IF requestArgs.hasArgs
                      THEN Arguments(Undefined, Undefined, TRUE,
                                     requestArgs.args)
                      ELSE EmptyObject,
                  meta |-> Meta(meta.progressToken)] >>]

\* handleToolCall up to its backend request: an error or one request
RouteToolCall(toolName, args, meta) ==
  IF toolName \notin DOMAIN toolToClientMap
    THEN [error |-> "Unknown tool: " \o toolName, requests |-> << >>,
          envVars |-> << >>]
  ELSE LET clientForTool == toolToClientMap[toolName]
           originalToolName ==
             IF clientForTool \in DOMAIN toolMappings
                /\ toolName \in DOMAIN toolMappings[clientForTool]
               THEN toolMappings[clientForTool][toolName]
               ELSE Undefined
           serverConfig == config[clientForTool.name]
           denied == validateToolAccess(toolName, originalToolName,
                                        serverConfig)
           envVars == EnvVarsOf(clientForTool.name, serverConfig)
           expandedArgs == IF args.defined THEN expandEnvVars(args, envVars)
                           ELSE EmptyObject
       IN  IF clientForTool.name = "custom"
             THEN handleCustomToolCall(toolName, args, meta)
           ELSE IF denied # Undefined
             THEN [error |-> denied, requests |-> << >>, envVars |-> << >>]
           ELSE [error |-> Undefined, envVars |-> envVars,
                 requests |->
                   << executeToolCall(toolName, expandedArgs, clientForTool,
                                      meta, originalToolName) >>]

\* a tools/call arrives and is routed up to the backend request
HandleToolCall(toolName, args, meta) ==
  /\ call.status # "pending"
  /\ LET r == RouteToolCall(toolName, args, meta)
     IN  call' = [status |-> IF r.error # Undefined THEN "failed"
                             ELSE "pending",
                  name |-> toolName, arguments |-> args, meta |-> meta,
                  requests |-> r.requests, error |-> r.error,
                  envVars |-> r.envVars, result |-> Undefined,
                  rejection |-> Undefined]
  /\ UNCHANGED << connectedClients, config, configTools, configChanges, passesBegun,
                  toolToClientMap, customToolToClientMap, toolMappings, pass,
                  listResult, promptVars, resourceVars,
                  restartVars, getVars >>

\* the text of the result a backend answers a tools/call with
ToolResult == "/h"

\* faulty variant: the error of the backend is wrapped in a new one
ToolCallSettledWrapped(ok, error) ==
  /\ call.status = "pending"
  /\ ok => call.requests[1].to \notin closed
  /\ call' = [call EXCEPT
                !.status = IF ok THEN "returned" ELSE "failed",
                !.error = IF ok THEN Undefined
                          ELSE "Error calling tool: " \o error,
                !.rejection = IF ok THEN Undefined ELSE error,
                !.result = IF ok THEN unexpandEnvVars(ToolResult, call.envVars)
                           ELSE Undefined]
  /\ UNCHANGED << connectedClients, config, configTools, configChanges, passesBegun,
                  toolToClientMap, customToolToClientMap, toolMappings, pass,
                  listResult, promptVars, resourceVars,
                  restartVars, getVars >>

\* the backend answers the request of the pending call and the handler
\* returns the result, names of variables put back, or the request is
\* rejected with this error and the handler rethrows it
ToolCallSettled(ok, error) ==
  /\ call.status = "pending"
  /\ ok => call.requests[1].to \notin closed
  /\ call' = [call EXCEPT
                !.status = IF ok THEN "returned" ELSE "failed",
                !.error = IF ok THEN Undefined ELSE error,
                !.rejection = IF ok THEN Undefined ELSE error,
                !.result = IF ok THEN unexpandEnvVars(ToolResult, call.envVars)
                           ELSE Undefined]
  /\ UNCHANGED << connectedClients, config, configTools, configChanges, passesBegun,
                  toolToClientMap, customToolToClientMap, toolMappings, pass,
                  listResult, promptVars, resourceVars,
                  restartVars, getVars >>

\* the same, the request failing with one fixed error
ToolCallResponse(ok) == ToolCallSettled(ok, "backend error")

(***************************************************************************)
(* Discovery of prompts: handleListPromptsRequest                          *)
(***************************************************************************)
clearPromptMap(map) == EmptyMap

mapPromptToClient(map, promptName, client) == MapSet(map, promptName, client)

\* the synthetic prompt every prompts/list answer starts with
RestartServerPrompt ==
  [name |-> "restart_server",
   description |-> "Restart a specified server or all servers"]

\* ...prompt, description: `[${connectedClient.name}] ${prompt.description}`
\* (an absent description is rendered by the template as the text undefined)
ServerPrompts(prompts, clientName) ==
  [i \in 1..Len(prompts) |->
     [prompts[i] EXCEPT
        !.description = "[" \o clientName \o "] " \o prompts[i].description]]

RECURSIVE RegisterPrompts(_, _, _)
RegisterPrompts(map, prompts, client) ==
  IF prompts = << >> THEN map
  ELSE RegisterPrompts(mapPromptToClient(map, Head(prompts).name, client),
                       Tail(prompts), client)

IdlePromptPass ==
  [pc |-> "idle", clients |-> << >>, idx |-> 0, prompts |-> << >>,
   failed |-> {}, unsupported |-> {}, logged |-> {}]

NoPromptResult ==
  [returned |-> FALSE, prompts |-> << >>, clients |-> << >>, failed |-> {},
   unsupported |-> {}, logged |-> {}]

\* faulty variant: one failing backend empties the whole answer
FinishPromptPassAllOrNothing(ps) ==
  /\ promptPass' = IdlePromptPass
  /\ promptResult' = [returned |-> TRUE,
                      prompts |-> IF ps.failed = {} THEN ps.prompts
                                  ELSE << RestartServerPrompt >>,
                      clients |-> ps.clients, failed |-> ps.failed,
                      unsupported |-> ps.unsupported, logged |-> ps.logged]

\* the return statement of the handler
FinishPromptPass(ps) ==
  /\ promptPass' = IdlePromptPass
  /\ promptResult' = [returned |-> TRUE, prompts |-> ps.prompts,
                      clients |-> ps.clients, failed |-> ps.failed,
                      unsupported |-> ps.unsupported, logged |-> ps.logged]

\* the handler is entered: the prompt map is cleared, the synthetic prompt is
\* pushed and the request to the first backend is issued
ListPromptsBegin ==
  /\ promptPass.pc = "idle"
  /\ promptToClientMap' = clearPromptMap(promptToClientMap)
  /\ LET ps == [IdlePromptPass EXCEPT !.pc = "fetch",
                                      !.clients = connectedClients, !.idx = 1,
                                      !.prompts = << RestartServerPrompt >>]
     IN  IF connectedClients = << >>
           THEN FinishPromptPass(ps)
           ELSE promptPass' = ps /\ UNCHANGED promptResult
  /\ UNCHANGED << connectedClients, config, configTools, configChanges, toolVars,
                  resourceVars,
                  restartVars, getVars >>

\* the backend the pass is waiting for answers (ok) or its request fails
\* with an error of this code, which the catch block logs unless the code is
\* that of an unsupported method
ListPromptsSettled(ok, code) ==
  /\ promptPass.pc = "fetch"
  /\ ok => promptPass.clients[promptPass.idx] \notin closed
  /\ LET ps     == promptPass
         client == ps.clients[ps.idx]
         serverPrompts == ServerPrompts(BackendPrompts[client.name],
                                        client.name)
         next   == [ps EXCEPT
                      !.idx = ps.idx + 1,
                      !.prompts = IF ok THEN @ \o serverPrompts ELSE @,
                      !.failed = IF ok THEN @ ELSE @ \cup {client.name},
                      !.unsupported =
                        IF ~ok /\ code = MethodNotFound
                          THEN @ \cup {client.name} ELSE @,
                      !.logged =
                        IF ~ok /\ code # MethodNotFound
                          THEN @ \cup {client.name} ELSE @]
     IN  /\ promptToClientMap' =
              IF ok THEN RegisterPrompts(promptToClientMap, serverPrompts,
                                         client)
              ELSE promptToClientMap
         /\ IF next.idx > Len(ps.clients)
              THEN FinishPromptPass(next)
              ELSE promptPass' = next /\ UNCHANGED promptResult
  /\ UNCHANGED << connectedClients, config, configTools, configChanges, toolVars,
                  resourceVars,
                  restartVars, getVars >>

\* the same, the request failing for a reason other than an unsupported
\* method
ListPromptsResponse(ok) == ListPromptsSettled(ok, OtherFailure)

(***************************************************************************)
(* Discovery of resources: the resources/list handler                      *)
(***************************************************************************)
clearResourceMap(map) == EmptyMap

mapResourceToClient(map, uri, client) == MapSet(map, uri, client)

\* ...resource, name: `[${connectedClient.name}] ${resource.name || ''}`
ResourcesWithSource(resources, clientName) ==
  [i \in 1..Len(resources) |->
     [resources[i] EXCEPT
        !.name = "[" \o clientName \o "] " \o resources[i].name]]

RECURSIVE RegisterResources(_, _, _)
RegisterResources(map, resources, client) ==
  IF resources = << >> THEN map
  ELSE RegisterResources(mapResourceToClient(map, Head(resources).uri, client),
                         Tail(resources), client)

IdleResourcePass ==
  [pc |-> "idle", clients |-> << >>, idx |-> 0, resources |-> << >>,
   failed |-> {}, unsupported |-> {}, logged |-> {}]

NoResourceResult ==
  [returned |-> FALSE, resources |-> << >>, clients |-> << >>, failed |-> {},
   unsupported |-> {}, logged |-> {}]

\* the return statement of the handler
FinishResourcePass(ps) ==
  /\ resourcePass' = IdleResourcePass
  /\ resourceResult' = [returned |-> TRUE, resources |-> ps.resources,
                        clients |-> ps.clients, failed |-> ps.failed,
                        unsupported |-> ps.unsupported, logged |-> ps.logged]

\* the handler is entered: the resource map is cleared and the request to the
\* first backend is issued
ListResourcesBegin ==
  /\ resourcePass.pc = "idle"
  /\ resourceToClientMap' = clearResourceMap(resourceToClientMap)
  /\ LET ps == [IdleResourcePass EXCEPT !.pc = "fetch",
                                        !.clients = connectedClients,
                                        !.idx = 1]
     IN  IF connectedClients = << >>
           THEN FinishResourcePass(ps)
           ELSE resourcePass' = ps /\ UNCHANGED resourceResult
  /\ UNCHANGED << connectedClients, config, configTools, configChanges, toolVars,
                  promptVars,
                  restartVars, getVars >>

\* the backend the pass is waiting for answers (ok) or its request fails
\* with an error of this code, which the catch block logs
ListResourcesSettled(ok, code) ==
  /\ resourcePass.pc = "fetch"
  /\ ok => resourcePass.clients[resourcePass.idx] \notin closed
  /\ LET ps     == resourcePass
         client == ps.clients[ps.idx]
         result == BackendResources[client.name]
         next   == [ps EXCEPT
                      !.idx = ps.idx + 1,
                      !.resources =
                        IF ok THEN @ \o ResourcesWithSource(result, client.name)
                        ELSE @,
                      !.failed = IF ok THEN @ ELSE @ \cup {client.name},
                      !.unsupported =
                        IF ~ok /\ code = MethodNotFound
                          THEN @ \cup {client.name} ELSE @,
                      !.logged = IF ok THEN @ ELSE @ \cup {client.name}]
     IN  /\ resourceToClientMap' =
              IF ok THEN RegisterResources(resourceToClientMap, result, client)
              ELSE resourceToClientMap
         /\ IF next.idx > Len(ps.clients)
              THEN FinishResourcePass(next)
              ELSE resourcePass' = next /\ UNCHANGED resourceResult
  /\ UNCHANGED << connectedClients, config, configTools, configChanges, toolVars,
                  promptVars,
                  restartVars, getVars >>

\* the same, the request failing for a reason other than an unsupported
\* method
ListResourcesResponse(ok) == ListResourcesSettled(ok, OtherFailure)

(***************************************************************************)
(* prompts/get of a backend prompt and resources/read                      *)
(***************************************************************************)
\* metadata of a restart_server result
NoMetadata == [success |-> FALSE, restarted_servers |-> << >>]

\* server: the argument of a restart_server prompt; looked: the handle
\* restartClient found for each server it was invoked for
NoPromptCall ==
  [status |-> "none", name |-> Undefined, server |-> Undefined,
   requests |-> << >>, error |-> Undefined, result |-> Undefined,
   metadata |-> NoMetadata, looked |-> << >>]

NoResourceCall ==
  [status |-> "none", uri |-> Undefined, requests |-> << >>,
   error |-> Undefined, result |-> Undefined]

\* handleGetPromptRequest for a prompt other than restart_server, up to its
\* backend request: an unknown name throws, a known one is forwarded
HandleGetPrompt(name, args, meta) ==
  /\ name # "restart_server"
  /\ promptCall.status \notin {"pending", "restarting"}
  /\ promptCall' =
       IF name \notin DOMAIN promptToClientMap
         THEN [NoPromptCall EXCEPT !.status = "failed", !.name = name,
                                   !.error = "Unknown prompt: " \o name]
         ELSE [NoPromptCall EXCEPT
                 !.status = "pending", !.name = name,
                 !.requests =
                   << [to |-> promptToClientMap[name],
                       method |-> "prompts/get", name |-> name,
                       arguments |-> IF args.defined THEN args
                                     ELSE EmptyObject,
                       meta |-> IF meta.defined THEN meta
                                ELSE Meta(Undefined)] >>]
  /\ UNCHANGED << connectedClients, config, configTools, configChanges, toolVars,
                  promptVars, resourceVars, restartVars, resourceCall >>

\* the text of the result a backend answers a prompts/get with
PromptResponse == "messages"

\* the backend answers the prompts/get and the handler returns the response,
\* or the request fails with this error and the handler rethrows it
GetPromptResponse(ok, error) ==
  /\ promptCall.status = "pending"
  /\ ok => promptCall.requests[1].to \notin closed
  /\ promptCall' = [promptCall EXCEPT
                      !.status = IF ok THEN "returned" ELSE "failed",
                      !.error = IF ok THEN Undefined ELSE error,
                      !.result = IF ok THEN PromptResponse ELSE Undefined]
  /\ UNCHANGED << connectedClients, config, configTools, configChanges, toolVars,
                  promptVars, resourceVars, restartVars, resourceCall >>

\* faulty variant: the error of an unknown URI does not say which URI
HandleReadResourceOpaque(uri, meta) ==
  /\ resourceCall.status # "pending"
  /\ resourceCall' =
       IF uri \notin DOMAIN resourceToClientMap
         THEN [NoResourceCall EXCEPT !.status = "failed", !.uri = uri,
                                     !.error = "Unknown resource"]
         ELSE [NoResourceCall EXCEPT
                 !.status = "pending", !.uri = uri,
                 !.requests =
                   << [to |-> resourceToClientMap[uri],
                       method |-> "resources/read", uri |-> uri,
                       meta |-> meta] >>]
  /\ UNCHANGED << connectedClients, config, configTools, configChanges, toolVars,
                  promptVars, resourceVars, restartVars, promptCall >>

\* the resources/read handler up to its backend request
HandleReadResource(uri, meta) ==
  /\ resourceCall.status # "pending"
  /\ resourceCall' =
       IF uri \notin DOMAIN resourceToClientMap
         THEN [NoResourceCall EXCEPT !.status = "failed", !.uri = uri,
                                     !.error = "Unknown resource: " \o uri]
         ELSE [NoResourceCall EXCEPT
                 !.status = "pending", !.uri = uri,
                 !.requests =
                   << [to |-> resourceToClientMap[uri],
                       method |-> "resources/read", uri |-> uri,
                       meta |-> meta] >>]
  /\ UNCHANGED << connectedClients, config, configTools, configChanges, toolVars,
                  promptVars, resourceVars, restartVars, promptCall >>

\* the text of the result a backend answers a resources/read with
ResourceContents == "contents"

\* faulty variant: a URI whose read failed is taken out of the resource map
ReadResourceResponseEvict(ok, error) ==
  /\ resourceCall.status = "pending"
  /\ ok => resourceCall.requests[1].to \notin closed
  /\ resourceCall' = [resourceCall EXCEPT
                        !.status = IF ok THEN "returned" ELSE "failed",
                        !.error = IF ok THEN Undefined ELSE error,
                        !.result = IF ok THEN ResourceContents ELSE Undefined]
  /\ resourceToClientMap' =
       IF ok THEN resourceToClientMap
       ELSE [u \in DOMAIN resourceToClientMap \ {resourceCall.uri} |->
               resourceToClientMap[u]]
  /\ UNCHANGED << connectedClients, config, configTools, configChanges,
                  toolVars, promptVars, resourcePass, resourceResult,
                  restartVars, promptCall >>

\* the backend answers the resources/read and the handler returns the
\* response, or the request fails with this error and the handler rethrows it
ReadResourceResponse(ok, error) ==
  /\ resourceCall.status = "pending"
  /\ ok => resourceCall.requests[1].to \notin closed
  /\ resourceCall' = [resourceCall EXCEPT
                        !.status = IF ok THEN "returned" ELSE "failed",
                        !.error = IF ok THEN Undefined ELSE error,
                        !.result = IF ok THEN ResourceContents ELSE Undefined]
  /\ UNCHANGED << connectedClients, config, configTools, configChanges, toolVars,
                  promptVars, resourceVars, restartVars, promptCall >>

(***************************************************************************)
(* Restart of a backend: restartClient and ClientMaps.updateConnectedClient *)
(***************************************************************************)
\* returned: what the last restartClient for the server resolved to
IdleRestart == [pc |-> "idle", old |-> customClient, returned |-> "none"]

\* map.forEach: every entry whose handle has this name is set to newClient
RewriteMap(map, serverName, newClient) ==
  [k \in DOMAIN map |->
     IF map[k].name = serverName THEN newClient ELSE map[k]]

\* getClientByName: the handles of the registry that have this name
getClientByName(clients, serverName) ==
  { c \in clients : c.name = serverName }

\* faulty variant: the prompt map is left as it was
updateConnectedClientNoPrompts(serverName, newClient) ==
  [registry |->
     (IF getClientByName(registry, serverName) # {}
        THEN registry \ { CHOOSE c \in getClientByName(registry, serverName) :
                            TRUE }
        ELSE registry) \cup {newClient},
   toolMap     |-> RewriteMap(toolToClientMap, serverName, newClient),
   customMap   |-> RewriteMap(customToolToClientMap, serverName, newClient),
   resourceMap |-> RewriteMap(resourceToClientMap, serverName, newClient),
   promptMap   |-> promptToClientMap]

\* updateConnectedClient: the registry and the four maps after it has run
updateConnectedClient(serverName, newClient) ==
  [registry |->
     (IF getClientByName(registry, serverName) # {}
        THEN registry \ { CHOOSE c \in getClientByName(registry, serverName) :
                            TRUE }
        ELSE registry) \cup {newClient},
   toolMap     |-> RewriteMap(toolToClientMap, serverName, newClient),
   customMap   |-> RewriteMap(customToolToClientMap, serverName, newClient),
   resourceMap |-> RewriteMap(resourceToClientMap, serverName, newClient),
   promptMap   |-> RewriteMap(promptToClientMap, serverName, newClient)]

(***************************************************************************)
(* Connecting at startup: createClients and connectWithRetry               *)
(***************************************************************************)
\* CONNECTION_RETRY_CONFIG
waitFor == 2500
retries == 3

\* no connectWithRetry run of the server yet
IdleConnect ==
  [pc |-> "idle", creatable |-> TRUE, count |-> 0, attempts |-> 0,
   closes |-> 0, waits |-> << >>, returned |-> "none"]

\* the handle a successful connection makes: an object there was not before
NewConnectedClient(s) ==
  LET gens == { h.gen : h \in getClientByName(everConnected, s) }
  IN  [ConnectedClient(s) EXCEPT
         !.gen = IF gens = {} THEN 0
                 ELSE 1 + CHOOSE g \in gens : \A k \in gens : k <= g]

\* faulty variant: one more attempt is made after the last failure
ShouldRetryOnceMore(count) == count <= retries

\* retry = count < retries
ShouldRetry(count) == count < retries

\* one turn of the while loop up to its await: createClient gives no
\* transport and null is returned, or client.connect is issued
EnterLoop(run) ==
  IF run.creatable
    THEN [run EXCEPT !.pc = "connect", !.attempts = @ + 1]
    ELSE [run EXCEPT !.pc = "done", !.returned = "null"]

\* createClients: connectWithRetry is called for every server at once; whether
\* a transport can be made for a server depends on its configuration alone
CreateClientsBegin(creatable) ==
  /\ \A s \in ServerNames : connecting[s].pc = "idle"
  /\ connectedClients = << >>
  /\ connecting' =
       [s \in ServerNames |->
          EnterLoop([IdleConnect EXCEPT !.creatable = creatable[s]])]
  /\ UNCHANGED << connectedClients, config, configTools, configChanges,
                  toolVars, promptVars, resourceVars, registry, closed,
                  restart, restartsBegun, secondRestart, everConnected,
                  getVars >>

\* client.connect settles: connected, and onConnect registers the handle and
\* the run returns it; or it fails, and the run goes on to close the client
\* and wait, or has used up its attempts and returns null
ConnectSettles(s, ok) ==
  /\ connecting[s].pc = "connect"
  /\ IF ok
       THEN LET connectedClient == NewConnectedClient(s)
            IN  /\ registry' = registry \cup {connectedClient}
                /\ everConnected' = everConnected \cup {connectedClient}
                /\ connecting' = [connecting EXCEPT
                                    ![s].pc = "done",
                                    ![s].returned = "client"]
       ELSE /\ connecting' =
                 [connecting EXCEPT
                    ![s] = IF ShouldRetry(connecting[s].count + 1)
                             THEN [@ EXCEPT !.count = @ + 1, !.pc = "close"]
                             ELSE [@ EXCEPT !.count = @ + 1, !.pc = "done",
                                            !.returned = "null"]]
            /\ UNCHANGED << registry, everConnected >>
  /\ UNCHANGED << connectedClients, config, configTools, configChanges,
                  toolVars, promptVars, resourceVars, closed, restart,
                  restartsBegun, secondRestart, getVars >>

\* client.close() of the failed attempt settles, either way; the wait begins
CloseSettles(s, ok) ==
  /\ connecting[s].pc = "close"
  /\ connecting' = [connecting EXCEPT ![s].pc = "sleep",
                                      ![s].closes = @ + 1]
  /\ UNCHANGED << connectedClients, config, configTools, configChanges,
                  toolVars, promptVars, resourceVars, registry, closed,
                  restart, restartsBegun, secondRestart, everConnected,
                  getVars >>

\* sleep(waitFor) is over: the next turn of the loop
SleepElapses(s) ==
  /\ connecting[s].pc = "sleep"
  /\ connecting' =
       [connecting EXCEPT
          ![s] = EnterLoop([@ EXCEPT !.waits = Append(@, waitFor)])]
  /\ UNCHANGED << connectedClients, config, configTools, configChanges,
                  toolVars, promptVars, resourceVars, registry, closed,
                  restart, restartsBegun, secondRestart, everConnected,
                  getVars >>

\* Promise.all has every run's result: the handles, nulls left out, in the
\* order of the configuration
CreateClientsReturns ==
  /\ \A s \in ServerNames : connecting[s].pc = "done"
  /\ connectedClients' =
       (IF connecting["F1"].returned = "client"
          THEN << CHOOSE h \in getClientByName(registry, "F1") : TRUE >>
          ELSE << >>)
        \o (IF connecting["F2"].returned = "client"
              THEN << CHOOSE h \in getClientByName(registry, "F2") : TRUE >>
              ELSE << >>)
  /\ connecting' = [s \in ServerNames |->
                      [connecting[s] EXCEPT !.pc = "collected"]]
  /\ UNCHANGED << config, configTools, configChanges, toolVars, promptVars,
                  resourceVars, registry, closed, restart, restartsBegun,
                  secondRestart, everConnected, getVars >>

(***************************************************************************)
(* Restarting a backend: restartClient                                     *)
(***************************************************************************)
\* restartClient is entered: the handle of the name is looked up in the
\* registry and its cleanup is awaited
RestartBegin(s) ==
  /\ restart[s].pc = "idle"
  /\ restartsBegun < MaxRestarts
  /\ getClientByName(registry, s) # {}
  /\ restartsBegun' = restartsBegun + 1
  /\ restart' = [restart EXCEPT
                   ![s] = [pc |-> "cleanup",
                           old |-> CHOOSE c \in getClientByName(registry, s) :
                                     TRUE,
                           returned |-> "none"]]
  /\ UNCHANGED << connectedClients, config, configTools, configChanges, toolVars,
                  promptVars, resourceVars, registry, closed, secondRestart,
                  everConnected, connecting, getVars >>

\* the cleanup closes the transport (ok) or throws, which is logged; either
\* way the reconnection is attempted and awaited
RestartCleanup(s, ok) ==
  /\ restart[s].pc = "cleanup"
  /\ closed' = IF ok THEN closed \cup {restart[s].old} ELSE closed
  /\ restart' = [restart EXCEPT ![s].pc = "connect"]
  /\ UNCHANGED << connectedClients, config, configTools, configChanges, toolVars,
                  promptVars, resourceVars, registry, restartsBegun,
                  secondRestart, everConnected, connecting, getVars >>

\* connectWithRetry connects (ok): the new handle is made and put in place
\* by updateConnectedClient before anything else runs; or every attempt
\* fails and restartClient returns null
RestartConnect(s, ok) ==
  /\ restart[s].pc = "connect"
  /\ restart' = [restart EXCEPT
                   ![s] = [IdleRestart EXCEPT
                             !.returned = IF ok THEN "client" ELSE "null"]]
  /\ IF ok
       THEN LET newConnectedClient == NewConnectedClient(s)
                updated == updateConnectedClient(s, newConnectedClient)
            IN  /\ registry' = updated.registry
                /\ toolToClientMap' = updated.toolMap
                /\ customToolToClientMap' = updated.customMap
                /\ resourceToClientMap' = updated.resourceMap
                /\ promptToClientMap' = updated.promptMap
                /\ everConnected' = everConnected \cup {newConnectedClient}
       ELSE UNCHANGED << registry, toolToClientMap, customToolToClientMap,
                         resourceToClientMap, promptToClientMap,
                         everConnected >>
  /\ UNCHANGED << connectedClients, config, configTools, configChanges, passesBegun,
                  toolMappings, pass, listResult, call, promptPass,
                  promptResult, resourcePass, resourceResult, closed,
                  restartsBegun, secondRestart, connecting, getVars >>

(***************************************************************************)
(* The restart_server prompt: handleRestartServerPrompt                    *)
(***************************************************************************)
\* String.prototype.toLowerCase on the server names a caller gives
ToLowerCase(str) == IF str = "ALL" THEN "all" ELSE str

\* faulty variant: every server there is, configured or not
ConfiguredServersAndOthers == ServerNames

\* Object.keys(config.mcpServers)
ConfiguredServers == { s \in ServerNames : config[s].defined }

\* restartClient up to its first await: null at once when the registry has
\* no handle of that name, else the cleanup of the handle it found
BeginRestartClient(s) ==
  IF getClientByName(registry, s) = {}
    THEN [IdleRestart EXCEPT !.returned = "null"]
    ELSE [pc |-> "cleanup",
          old |-> CHOOSE c \in getClientByName(registry, s) : TRUE,
          returned |-> "none"]

\* a second restartClient for the same server is entered while the first is
\* awaiting its cleanup or its reconnection: it looks the handle up in the
\* registry as the registry is then
SecondRestartBegin(s) ==
  /\ restart[s].pc # "idle"
  /\ secondRestart[s].pc = "idle"
  /\ restartsBegun < MaxRestarts + MaxOverlapping
  /\ restartsBegun' = restartsBegun + 1
  /\ secondRestart' = [secondRestart EXCEPT ![s] = BeginRestartClient(s)]
  /\ UNCHANGED << connectedClients, config, configTools, configChanges,
                  toolVars, promptVars, resourceVars, registry, closed,
                  restart, everConnected, connecting, getVars >>

\* its cleanup of the handle it found
SecondRestartCleanup(s, ok) ==
  /\ secondRestart[s].pc = "cleanup"
  /\ closed' = IF ok THEN closed \cup {secondRestart[s].old} ELSE closed
  /\ secondRestart' = [secondRestart EXCEPT ![s].pc = "connect"]
  /\ UNCHANGED << connectedClients, config, configTools, configChanges,
                  toolVars, promptVars, resourceVars, registry, restart,
                  restartsBegun, everConnected, connecting, getVars >>

\* its connectWithRetry: a new handle put in place by updateConnectedClient,
\* or null
SecondRestartConnect(s, ok) ==
  /\ secondRestart[s].pc = "connect"
  /\ secondRestart' = [secondRestart EXCEPT
                         ![s] = [IdleRestart EXCEPT
                                   !.returned = IF ok THEN "client"
                                                ELSE "null"]]
  /\ IF ok
       THEN LET newConnectedClient == NewConnectedClient(s)
                updated == updateConnectedClient(s, newConnectedClient)
            IN  /\ registry' = updated.registry
                /\ toolToClientMap' = updated.toolMap
                /\ customToolToClientMap' = updated.customMap
                /\ resourceToClientMap' = updated.resourceMap
                /\ promptToClientMap' = updated.promptMap
                /\ everConnected' = everConnected \cup {newConnectedClient}
       ELSE UNCHANGED << registry, toolToClientMap, customToolToClientMap,
                         resourceToClientMap, promptToClientMap,
                         everConnected >>
  /\ UNCHANGED << connectedClients, config, configTools, configChanges,
                  passesBegun, toolMappings, pass, listResult, call,
                  promptPass, promptResult, resourcePass, resourceResult,
                  closed, restart, restartsBegun, connecting, getVars >>

\* faulty variant: an absent server argument restarts every server
HandleRestartServerPromptDefaultAll(args) ==
  LET serverName == IF args.defined /\ args.isObject THEN args.server
                    ELSE Undefined
      targets == ConfiguredServers
  IN  /\ promptCall.status \notin {"pending", "restarting"}
      /\ restartsBegun < MaxRestarts
      /\ \A s \in ServerNames : restart[s].pc = "idle"
      /\ promptCall' =
           [NoPromptCall EXCEPT
              !.status = "restarting", !.name = "restart_server",
              !.server = serverName,
              !.looked = [s \in targets |-> getClientByName(registry, s)]]
      /\ restart' = [s \in ServerNames |->
                       IF s \in targets THEN BeginRestartClient(s)
                       ELSE restart[s]]
      /\ restartsBegun' = restartsBegun + Cardinality(targets)
      /\ UNCHANGED << connectedClients, config, configTools, configChanges, toolVars,
                      promptVars, resourceVars, registry, closed,
                      secondRestart, everConnected, connecting,
                      resourceCall >>

\* handleRestartServerPrompt up to its first restart: the argument check
\* throws, a name the configuration lacks gives the error result, and else
\* restartClient is begun for the named server or for every configured one
HandleRestartServerPrompt(args) ==
  LET serverName == IF args.defined /\ args.isObject THEN args.server
                    ELSE Undefined
      all == ToLowerCase(serverName) = "all"
      targets == IF all THEN ConfiguredServers ELSE {serverName}
      message == "Server '" \o serverName \o "' not found in configuration"
  IN  /\ promptCall.status \notin {"pending", "restarting"}
      /\ restartsBegun < MaxRestarts
      /\ \A s \in ServerNames : restart[s].pc = "idle"
      /\ IF TypeOf(serverName) # "string"
           THEN /\ promptCall' =
                     [NoPromptCall EXCEPT
                        !.status = "failed", !.name = "restart_server",
                        !.server = serverName,
                        !.error = "Server name is required to restart a server"]
                /\ UNCHANGED restartVars
         ELSE IF ~all /\ serverName \notin ConfiguredServers
           THEN /\ promptCall' =
                     [NoPromptCall EXCEPT
                        !.status = "returned", !.name = "restart_server",
                        !.server = serverName,
                        !.result = "Error restarting server: " \o message]
                /\ UNCHANGED restartVars
         ELSE /\ promptCall' =
                   [NoPromptCall EXCEPT
                      !.status = "restarting", !.name = "restart_server",
                      !.server = serverName,
                      !.looked = [s \in targets |->
                                    getClientByName(registry, s)]]
              /\ restart' = [s \in ServerNames |->
                               IF s \in targets THEN BeginRestartClient(s)
                               ELSE restart[s]]
              /\ restartsBegun' = restartsBegun + Cardinality(targets)
              /\ UNCHANGED << registry, closed, secondRestart, everConnected,
                              connecting >>
      /\ UNCHANGED << connectedClients, config, configTools, configChanges, toolVars,
                      promptVars, resourceVars, resourceCall >>

\* every restartClient the prompt awaits has resolved: the tally of all
\* servers, or the outcome of the one server, is returned
RestartServerPromptReturns ==
  LET targets == DOMAIN promptCall.looked
      all == ToLowerCase(promptCall.server) = "all"
      allServerRestarts == [s \in targets |-> restart[s].returned = "client"]
      successCount == Cardinality({ s \in targets : allServerRestarts[s] })
  IN  /\ promptCall.status = "restarting"
      /\ \A s \in targets : restart[s].pc = "idle"
      /\ promptCall' =
           [promptCall EXCEPT
              !.status = "returned",
              !.result =
                IF all
                  THEN "Restarted " \o ToString(successCount) \o "/"
                         \o ToString(Cardinality(targets)) \o " servers."
                ELSE IF allServerRestarts[promptCall.server]
                  THEN "Successfully restarted server: " \o promptCall.server
                ELSE "Failed to restart server: " \o promptCall.server,
              !.metadata =
                IF all
                  THEN [success |-> FALSE,
                        restarted_servers |-> allServerRestarts]
                  ELSE [success |-> allServerRestarts[promptCall.server],
                        restarted_servers |-> << >>]]
      /\ UNCHANGED << connectedClients, config, configTools, configChanges,
                      toolVars, promptVars, resourceVars, restartVars,
                      resourceCall >>

(***************************************************************************)
(* The environment: configuration and live set                             *)
(***************************************************************************)
\* the configuration is rewritten: one server's policy changes; a pass in
\* flight keeps the configuration it loaded, a call reads the current one
ChangeServerConfig(s, c) ==
  /\ configChanges < MaxConfigChanges
  /\ c # config[s]
  /\ config' = [config EXCEPT ![s] = c]
  /\ configChanges' = configChanges + 1
  /\ UNCHANGED << connectedClients, configTools, toolVars, promptVars,
                  resourceVars, restartVars, getVars >>

\* a backend leaves the live set handed to the handlers; no handler changes
\* the array, so it changes only between the invocations that iterate it
RemoveClient(i) ==
  /\ i \in 1..Len(connectedClients)
  /\ InFlight = {}
  /\ connectedClients' =
       SubSeq(connectedClients, 1, i - 1)
         \o SubSeq(connectedClients, i + 1, Len(connectedClients))
  /\ UNCHANGED << config, configTools, configChanges, toolVars, promptVars,
                  resourceVars,
                  restartVars, getVars >>

(***************************************************************************)
(* Specifications                                                          *)
(***************************************************************************)
\* both iteration orders of the two backends
ClientOrders ==
  { << ConnectedClient("F1"), ConnectedClient("F2") >>,
    << ConnectedClient("F2"), ConnectedClient("F1") >> }

\* every configuration the policy choices allow
Configs ==
  { c \in [ServerNames -> UNION Range2(ServerConfigChoices)] :
      \A s \in ServerNames : c[s] \in ServerConfigChoices[s] }

\* the state after construction, for a live set and a configuration
InitWithTools(clients, configs, tools) ==
  /\ connectedClients \in clients
  /\ config \in configs
  /\ configTools = tools
  /\ configChanges = 0
  /\ passesBegun = 0
  /\ toolToClientMap = EmptyMap
  /\ customToolToClientMap = EmptyMap
  /\ toolMappings = EmptyMap
  /\ pass = [p \in PassIds |-> IdlePass]
  /\ listResult = NoListResult
  /\ call = NoCall
  /\ promptToClientMap = EmptyMap
  /\ promptPass = IdlePromptPass
  /\ promptResult = NoPromptResult
  /\ resourceToClientMap = EmptyMap
  /\ resourcePass = IdleResourcePass
  /\ resourceResult = NoResourceResult
  /\ registry = Range(connectedClients)
  /\ closed = {}
  /\ restart = [s \in ServerNames |-> IdleRestart]
  /\ secondRestart = [s \in ServerNames |-> IdleRestart]
  /\ everConnected = Range(connectedClients)
  /\ connecting = [s \in ServerNames |-> IdleConnect]
  /\ restartsBegun = 0
  /\ promptCall = NoPromptCall
  /\ resourceCall = NoResourceCall

\* the same with the composite tools every specification but one has
InitWith(clients, configs) == InitWithTools(clients, configs, ToolsConfig)

\* tools: discovery passes, calls and a shrinking live set, fixed policies
Init == InitWith(ClientOrders, Configs)

Next ==
  \/ \E p \in PassIds : ListToolsBegin(p)
  \/ \E p \in PassIds, ok \in BOOLEAN : ListToolsResponse(p, ok)
  \/ \E r \in CallRequests : HandleToolCall(r.name, r.arguments, r.meta)
  \/ \E ok \in BOOLEAN : ToolCallResponse(ok)
  \/ \E i \in 1..2 : RemoveClient(i)

Spec == Init /\ [][Next]_vars

\* tools under a policy that changes between discovery and call
PolicyConfigs == { c \in Configs : c["F1"] = NoServerConfig }

InitPolicy ==
  InitWith({ << ConnectedClient("F1"), ConnectedClient("F2") >> },
           PolicyConfigs)

NextPolicy ==
  \/ ListToolsBegin(1)
  \/ \E ok \in BOOLEAN : ListToolsResponse(1, ok)
  \/ \E r \in CallRequests : HandleToolCall(r.name, r.arguments, r.meta)
  \/ \E ok \in BOOLEAN : ToolCallResponse(ok)
  \/ \E c \in ServerConfigChoices["F2"] : ChangeServerConfig("F2", c)

SpecPolicy == InitPolicy /\ [][NextPolicy]_vars

\* the three discovery kinds side by side, any backend failing
ListsConfigs ==
  { c \in Configs :
      /\ c["F1"] = NoServerConfig
      /\ c["F2"] \in { NoServerConfig,
                       ServerConfig(FALSE, <<>>, TRUE, <<"echo">>) } }

InitLists == InitWith(ClientOrders, ListsConfigs)

NextLists ==
  \/ ListToolsBegin(1)
  \/ \E ok \in BOOLEAN : ListToolsResponse(1, ok)
  \/ ListPromptsBegin
  \/ \E ok \in BOOLEAN : ListPromptsResponse(ok)
  \/ ListResourcesBegin
  \/ \E ok \in BOOLEAN : ListResourcesResponse(ok)

SpecLists == InitLists /\ [][NextLists]_vars

\* composites: discovery over a shrinking live set and calls of composites
\* with every shape of arguments
CompositeCallRequests ==
  { CallRequest("C", Arguments("F2", "t1", TRUE, <<"x">>), Meta("tok")),
    CallRequest("C", Arguments("F2", "echo", TRUE, <<"x">>), NoMeta),
    CallRequest("C", Arguments("Z", "z1", TRUE, <<"x">>), NoMeta),
    CallRequest("D", Arguments("F2", "echo", FALSE, <<>>), NoMeta),
    CallRequest("D", Arguments("F2", "t1", TRUE, <<"x">>), NoMeta),
    CallRequest("C", NoArguments, NoMeta),
    CallRequest("C", Arguments(Undefined, "t1", TRUE, <<"x">>), NoMeta),
    CallRequest("C", Arguments("F2", Undefined, TRUE, <<"x">>), NoMeta),
    CallRequest("C", Arguments(Undefined, Undefined, FALSE, <<>>), NoMeta),
    CallRequest("C", Arguments(Undefined, Number123, FALSE, <<>>), NoMeta),
    CallRequest("C", Arguments(Number123, "t1", TRUE, <<"x">>), NoMeta),
    CallRequest("C", Arguments("F2", Number123, TRUE, <<"x">>), NoMeta),
    CallRequest("D", NotAnObject, NoMeta),
    CallRequest("t1", NoArguments, NoMeta) }

CompositeConfigs ==
  { c \in Configs :
      /\ c["F1"] = NoServerConfig
      /\ c["F2"] \in { NoServerConfig,
                       ServerConfig(TRUE, <<Str("t1")>>, FALSE, <<>>),
                       ServerConfig(FALSE, <<>>, TRUE, <<"echo">>) } }

InitComposite == InitWith(ClientOrders, CompositeConfigs)

NextComposite ==
  \/ ListToolsBegin(1)
  \/ \E ok \in BOOLEAN : ListToolsResponse(1, ok)
  \/ \E r \in CompositeCallRequests :
       HandleToolCall(r.name, r.arguments, r.meta)
  \/ \E ok \in BOOLEAN : ToolCallResponse(ok)
  \/ \E i \in 1..2 : RemoveClient(i)

SpecComposite == InitComposite /\ [][NextComposite]_vars

\* restarts: a backend is restarted while discovery of the three kinds and
\* calls go on
RestartCallRequests ==
  { CallRequest("t1", NoArguments, NoMeta),
    CallRequest("C", Arguments("F2", "t1", TRUE, <<"x">>), NoMeta) }

RestartConfigs == { c \in Configs : \A s \in ServerNames : ~c[s].defined }

InitRestart ==
  InitWith({ << ConnectedClient("F1"), ConnectedClient("F2") >> },
           RestartConfigs)

NextRestart ==
  \/ ListToolsBegin(1)
  \/ \E ok \in BOOLEAN : ListToolsResponse(1, ok)
  \/ \E r \in RestartCallRequests :
       HandleToolCall(r.name, r.arguments, r.meta)
  \/ \E ok \in BOOLEAN : ToolCallResponse(ok)
  \/ \E s \in ServerNames : RestartBegin(s)
  \/ \E s \in ServerNames, ok \in BOOLEAN : RestartCleanup(s, ok)
  \/ \E s \in ServerNames, ok \in BOOLEAN : RestartConnect(s, ok)

SpecRestart == InitRestart /\ [][NextRestart]_vars

\* the key spaces of all kinds are filled by discovery and backend
\* F2 is restarted; list requests fail only once a transport has been closed
NextUpdate ==
  \/ ListToolsBegin(1)
  \/ \E ok \in BOOLEAN : (ok \/ closed # {}) /\ ListToolsResponse(1, ok)
  \/ ListPromptsBegin
  \/ \E ok \in BOOLEAN : (ok \/ closed # {}) /\ ListPromptsResponse(ok)
  \/ ListResourcesBegin
  \/ \E ok \in BOOLEAN : (ok \/ closed # {}) /\ ListResourcesResponse(ok)
  \/ RestartBegin("F2")
  \/ \E ok \in BOOLEAN : RestartCleanup("F2", ok)
  \/ \E ok \in BOOLEAN : RestartConnect("F2", ok)

SpecUpdate == InitRestart /\ [][NextUpdate]_vars

\* discovery of the three kinds, one pass at a time, with list requests that
\* fail with either error code
NoPassInFlight ==
  InFlight = {} /\ promptPass.pc = "idle" /\ resourcePass.pc = "idle"

NextErrors ==
  \/ NoPassInFlight /\ ListToolsBegin(1)
  \/ \E ok \in BOOLEAN, code \in ErrorCodes :
       (ok => code = OtherFailure) /\ ListToolsSettled(1, ok, code)
  \/ NoPassInFlight /\ ListPromptsBegin
  \/ \E ok \in BOOLEAN, code \in ErrorCodes :
       (ok => code = OtherFailure) /\ ListPromptsSettled(ok, code)
  \/ NoPassInFlight /\ ListResourcesBegin
  \/ \E ok \in BOOLEAN, code \in ErrorCodes :
       (ok => code = OtherFailure) /\ ListResourcesSettled(ok, code)

SpecErrors == InitRestart /\ [][NextErrors]_vars

\* a backend whose configured name is "custom" beside F2 and the composites
CustomNameCallRequests ==
  { CallRequest("ct", NoArguments, NoMeta),
    CallRequest("ct", Arguments(Undefined, Undefined, TRUE, <<"x">>),
                Meta("tok")),
    CallRequest("ct", Arguments("F2", "t1", TRUE, <<"x">>), NoMeta),
    CallRequest("C", Arguments("F2", "t1", TRUE, <<"x">>), NoMeta),
    CallRequest("t1", NoArguments, NoMeta) }

CustomNameConfigs ==
  { [custom |-> c, F1 |-> NoServerConfig, F2 |-> NoServerConfig] :
      c \in { NoServerConfig, ServerConfig(FALSE, <<>>, FALSE, <<>>),
              ServerConfig(TRUE, <<Str("ct")>>, FALSE, <<>>) } }

InitCustomName ==
  InitWith({ << ConnectedClient("custom"), ConnectedClient("F2") >>,
             << ConnectedClient("F2"), ConnectedClient("custom") >> },
           CustomNameConfigs)

NextCustomName ==
  \/ ListToolsBegin(1)
  \/ \E ok \in BOOLEAN : ListToolsResponse(1, ok)
  \/ \E r \in CustomNameCallRequests :
       HandleToolCall(r.name, r.arguments, r.meta)
  \/ \E ok \in BOOLEAN : ToolCallResponse(ok)

SpecCustomName == InitCustomName /\ [][NextCustomName]_vars

\* names that meet: echo, p1 and r1 are offered by both backends, and F2's
\* t1 can be exposed under the name of composite D
DuplicateConfigs ==
  { c \in [ServerNames -> { NoServerConfig,
                            ServerConfig(TRUE, <<Str("echo"),
                                                 Mapping("t1", "D")>>,
                                         FALSE, <<>>) }] :
      c["F1"] = NoServerConfig }

InitDuplicates == InitWith(ClientOrders, DuplicateConfigs)

NextDuplicates ==
  \/ ListToolsBegin(1)
  \/ \E ok \in BOOLEAN : ListToolsResponse(1, ok)
  \/ ListPromptsBegin
  \/ \E ok \in BOOLEAN : ListPromptsResponse(ok)
  \/ ListResourcesBegin
  \/ \E ok \in BOOLEAN : ListResourcesResponse(ok)

SpecDuplicates == InitDuplicates /\ [][NextDuplicates]_vars

\* calls of the three kinds, for names the key spaces hold and for names they
\* do not, between discovery passes that run one at a time and succeed
GetCallRequests ==
  { CallRequest("t1", NoArguments, NoMeta),
    CallRequest("nope", NoArguments, NoMeta),
    CallRequest("C", Arguments("F2", "t1", TRUE, <<"x">>), NoMeta) }

GetPromptNames == {"p1", "nope"}

GetResourceUris == {"r1", "nope"}

\* the errors a failing backend request is rejected with
BackendErrors == {"backend error", "/h"}

NextGet ==
  \/ NoPassInFlight /\ ListToolsBegin(1)
  \/ ListToolsResponse(1, TRUE)
  \/ NoPassInFlight /\ ListPromptsBegin
  \/ ListPromptsResponse(TRUE)
  \/ NoPassInFlight /\ ListResourcesBegin
  \/ ListResourcesResponse(TRUE)
  \/ \E r \in GetCallRequests : HandleToolCall(r.name, r.arguments, r.meta)
  \/ \E ok \in BOOLEAN : ToolCallResponse(ok)
  \/ \E n \in GetPromptNames, a \in {NoArguments, EmptyObject} :
       HandleGetPrompt(n, a, NoMeta)
  \/ \E ok \in BOOLEAN : GetPromptResponse(ok, "backend error")
  \/ \E u \in GetResourceUris : HandleReadResource(u, NoMeta)
  \/ \E ok \in BOOLEAN : ReadResourceResponse(ok, "backend error")

SpecGet == InitRestart /\ [][NextGet]_vars

\* tool calls whose backend request settles with a result or with either
\* error, F1 being configured and so having its environment variables
SettleConfigs == { c \in Configs : c["F1"].defined }

InitSettle ==
  InitWith({ << ConnectedClient("F1"), ConnectedClient("F2") >> },
           SettleConfigs)

NextSettle ==
  \/ ListToolsBegin(1)
  \/ ListToolsResponse(1, TRUE)
  \/ \E r \in CallRequests : HandleToolCall(r.name, r.arguments, r.meta)
  \/ \E ok \in BOOLEAN, e \in BackendErrors :
       (ok => e = "backend error") /\ ToolCallSettled(ok, e)

SpecSettle == InitSettle /\ [][NextSettle]_vars

\* the restart_server prompt after discovery: F1 is configured and
\* connected, F2 is either, both or neither
JustConfigured == ServerConfig(FALSE, << >>, FALSE, << >>)

RestartPromptConfigs ==
  { [F1 |-> JustConfigured, F2 |-> c] : c \in {NoServerConfig, JustConfigured} }

RestartPromptArguments ==
  { NoArguments,
    Arguments(Number123, Undefined, FALSE, << >>),
    Arguments("all", Undefined, FALSE, << >>),
    Arguments("ALL", Undefined, FALSE, << >>),
    Arguments("F2", Undefined, FALSE, << >>),
    Arguments("Z", Undefined, FALSE, << >>) }

InitRestartPrompt ==
  InitWith({ << ConnectedClient("F1"), ConnectedClient("F2") >>,
             << ConnectedClient("F1") >> },
           RestartPromptConfigs)

NextRestartPrompt ==
  \/ NoPassInFlight /\ ListToolsBegin(1)
  \/ ListToolsResponse(1, TRUE)
  \/ NoPassInFlight /\ ListPromptsBegin
  \/ ListPromptsResponse(TRUE)
  \/ NoPassInFlight /\ ListResourcesBegin
  \/ ListResourcesResponse(TRUE)
  \/ \E a \in RestartPromptArguments : HandleRestartServerPrompt(a)
  \/ \E s \in ServerNames, ok \in BOOLEAN : RestartCleanup(s, ok)
  \/ \E s \in ServerNames, ok \in BOOLEAN : RestartConnect(s, ok)
  \/ RestartServerPromptReturns

SpecRestartPrompt == InitRestartPrompt /\ [][NextRestartPrompt]_vars

\* a configuration whose second composite, B, cannot be built: the entry of
\* F2 under its subtools has no list of tools
MalformedToolConfig ==
  [name |-> "B", hasDescription |-> TRUE, description |-> "bdesc",
   subtools |->
     << [server |-> "F1",
         tools |-> << [name |-> "echo", description |-> Undefined] >>],
        [server |-> "F2"] >>]

MalformedToolsConfig ==
  << ToolsConfig[1], MalformedToolConfig, ToolsConfig[2] >>

MalformedCallRequests ==
  { CallRequest("B", Arguments("F1", "echo", TRUE, <<"x">>), NoMeta),
    CallRequest("D", Arguments("F2", "echo", TRUE, <<"x">>), NoMeta),
    CallRequest("t1", NoArguments, NoMeta) }

InitMalformed == InitWithTools(ClientOrders, RestartConfigs, MalformedToolsConfig)

NextMalformed ==
  \/ \E p \in PassIds : ListToolsBegin(p)
  \/ \E p \in PassIds, ok \in BOOLEAN : ListToolsResponse(p, ok)
  \/ \E r \in MalformedCallRequests :
       HandleToolCall(r.name, r.arguments, r.meta)
  \/ \E ok \in BOOLEAN : ToolCallResponse(ok)

SpecMalformed == InitMalformed /\ [][NextMalformed]_vars

(***************************************************************************)
(* Vocabulary of the properties                                            *)
(***************************************************************************)
ClientNames(clients) == { clients[i].name : i \in 1..Len(clients) }

CompositeNames == { ToolsConfig[i].name : i \in 1..Len(ToolsConfig) }

\* the last listTools pass has returned, no other pass ran while it did, none
\* has begun since, and the configuration is the one it read
Settled ==
  /\ listResult.returned /\ listResult.clean /\ listResult.current
  /\ listResult.config = config

\* backend s was iterated by that pass and its list request did not fail
Answered(s) ==
  s \in ClientNames(listResult.clients) /\ s \notin listResult.failed

\* the catalog has an entry of this name carrying the marker of backend s
ListedFrom(tools, s, name) ==
  \E i \in 1..Len(tools) :
    /\ tools[i].name = name
    /\ \E t \in Range(BackendTools[s]) :
         tools[i].description = "[" \o s \o "] " \o t.description

\* the catalog has tool orig of backend s under the public name pub
ListedAs(tools, s, orig, pub) ==
  \E i \in 1..Len(tools) :
    tools[i] = PrefixDescription(
                 [Tool(orig) EXCEPT
                    !.name = pub,
                    !.originalName = IF pub = orig THEN Undefined ELSE orig],
                 s)

\* the outcome of a tools/call for this request in the current state
Outcome(r) == RouteToolCall(r.name, r.arguments, r.meta)

\* the call was dispatched as exactly one request, to backend s, under name n
SentTo(out, s, n) ==
  /\ out.error = Undefined
  /\ Len(out.requests) = 1
  /\ out.requests[1].to \in Range(listResult.clients)
  /\ out.requests[1].to.name = s
  /\ out.requests[1].method = "tools/call"
  /\ out.requests[1].name = n

RenameOnly == ServerConfig(TRUE, <<Mapping("echo", "echoF2")>>, FALSE, <<>>)

\* the public names the policy of backend s lets through
PublicNames(s) == Names(filterTools(BackendTools[s], config[s]))

\* a backend iterated after s in the last pass registered the name as well
RegisteredLater(s, name) ==
  \E i, j \in 1..Len(listResult.clients) :
    /\ i < j
    /\ listResult.clients[i].name = s
    /\ listResult.clients[j].name \notin listResult.failed
    /\ name \in PublicNames(listResult.clients[j].name)

(***************************************************************************)
(* C1                                                                      *)
(***************************************************************************)
\* C1: when a listTools pass that no other pass overlapped has returned,
\* every name of the returned list, plain or composite, is a key of the tool
\* map, and a tools/call for a returned name does not fail with
\* "Unknown tool".
C1_ListedNamesResolve ==
  (listResult.returned /\ listResult.clean /\ listResult.current) =>
    /\ Names(listResult.tools) \subseteq DOMAIN toolToClientMap
    /\ \A r \in CallRequests :
         r.name \in Names(listResult.tools) =>
           Outcome(r).error # "Unknown tool: " \o r.name

\* a clean pass listed a renamed tool and the composite, and a call for the
\* renamed tool went out to a backend
C1_Witness ==
  /\ listResult.returned /\ listResult.clean /\ listResult.current
  /\ {"echoF2", "C"} \subseteq Names(listResult.tools)
  /\ call.status = "pending"
  /\ call.name = "echoF2"
  /\ Len(call.requests) = 1

(***************************************************************************)
(* C2                                                                      *)
(***************************************************************************)
\* what C2 asserts of backend s, whose policy is the single mapping
\* echo -> echoF2
RenameHolds(s) ==
  /\ ListedFrom(listResult.tools, s, "echoF2")
  /\ ~ListedFrom(listResult.tools, s, "echo")
  /\ "echoF2" \in DOMAIN toolToClientMap
  /\ ~("echo" \in DOMAIN toolToClientMap /\ toolToClientMap["echo"].name = s)
  /\ \A r \in CallRequests :
       r.name = "echoF2" => SentTo(Outcome(r), s, "echo")

NoFilter == { NoServerConfig, ServerConfig(FALSE, <<>>, FALSE, <<>>) }

\* the entries of the catalog that are not composites
PlainEntries(tools) ==
  { tools[i] : i \in { j \in 1..Len(tools) :
                         tools[j].name \notin CompositeNames } }

\* C3: with F1 unfiltered and F2 exposing echo as echoF2, both answering,
\* the plain names of the catalog are exactly echo, marked F1, and echoF2,
\* marked F2; a call of echo is sent to F1 under the name echo and a call of
\* echoF2 to F2 under the name echo, in either iteration order.
C3_EchoAndEchoF2 ==
  (Settled /\ Answered("F1") /\ Answered("F2")
     /\ config["F1"] \in NoFilter /\ config["F2"] = RenameOnly) =>
    /\ { t.name : t \in PlainEntries(listResult.tools) } = {"echo", "echoF2"}
    /\ Cardinality(PlainEntries(listResult.tools)) = 2
    /\ ListedFrom(listResult.tools, "F1", "echo")
    /\ ListedFrom(listResult.tools, "F2", "echoF2")
    /\ \A r \in CallRequests :
         /\ r.name = "echo" => SentTo(Outcome(r), "F1", "echo")
         /\ r.name = "echoF2" => SentTo(Outcome(r), "F2", "echo")

\* F2 is iterated first, and the call of echo is on its way to F1
C3_Witness ==
  /\ Settled /\ Answered("F1") /\ Answered("F2")
  /\ config["F1"] \in NoFilter /\ config["F2"] = RenameOnly
  /\ listResult.clients[1].name = "F2"
  /\ call.status = "pending" /\ call.name = "echo"
  /\ call.requests[1].to.name = "F1" /\ call.requests[1].name = "echo"

(***************************************************************************)
(* C4                                                                      *)
(***************************************************************************)
BothLists == ServerConfig(TRUE, <<Str("echo")>>, TRUE, <<"echo", "t1">>)

\* C4: for F2, which offers echo and t1, under exposedTools = [echo] and
\* hiddenTools = [echo, t1], the catalog has echo from F2 and no t1: the
\* deny-list does not change what an allow-list lets through.
C4_AllowListWinsInListing ==
  (Settled /\ Answered("F2") /\ config["F2"] = BothLists) =>
    /\ ListedFrom(listResult.tools, "F2", "echo")
    /\ "t1" \notin Names(listResult.tools)
    /\ Names(ToolServiceFilterTools(BackendTools["F2"], config["F2"]))
         = {"echo"}
    /\ isToolAllowed("echo", "F2", config)
    /\ ~isToolAllowed("t1", "F2", config)

\* a pass listed F2 under both lists while F1 did not answer, so the echo of
\* the catalog is the one of F2
C4_Witness ==
  /\ Settled /\ Answered("F2") /\ config["F2"] = BothLists
  /\ "F1" \in listResult.failed
  /\ "echo" \in Names(listResult.tools)

(***************************************************************************)
(* C5                                                                      *)
(***************************************************************************)
\* the public name the policy of backend s gives its tool n (n itself when
\* the policy drops the tool)
PublicNameOf(s, n) ==
  LET listed == filterTools(<< Tool(n) >>, config[s])
  IN  IF listed = << >> THEN n ELSE listed[1].name

\* the call-time access check of backend s lets tool n through
Accepts(s, n) ==
  validateToolAccess(PublicNameOf(s, n),
                     IF PublicNameOf(s, n) # n THEN n ELSE Undefined,
                     config[s]) = Undefined

\* C5: for every policy and every tool n a backend offers, the call-time
\* access check accepts n exactly when the discovery pass listed n; a name
\* on both the allow-list and the deny-list is listed and its call accepted.
C5_AccessCheckMatchesListing ==
  \A s \in ServerNames : \A n \in Names(BackendTools[s]) :
    (Settled /\ Answered(s)) =>
      /\ Accepts(s, n) <=>
           ListedAs(listResult.tools, s, n, PublicNameOf(s, n))
      /\ ListedAs(listResult.tools, s, n, PublicNameOf(s, n)) <=>
           n \in Names(ToolServiceFilterTools(BackendTools[s], config[s]))

(***************************************************************************)
(* C6                                                                      *)
(***************************************************************************)
\* C6: a call of echoF2, registered by a backend as a rename of echo, is
\* decided by the current policy of that backend on echo: dispatched under
\* the name echo when the policy admits echo, failed without a request when
\* it does not, whatever the policy says of echoF2.
C6_CurrentPolicyOnOriginalName ==
  ("echoF2" \in DOMAIN toolToClientMap
     /\ toolToClientMap["echoF2"] \in DOMAIN toolMappings
     /\ "echoF2" \in DOMAIN toolMappings[toolToClientMap["echoF2"]]
     /\ toolMappings[toolToClientMap["echoF2"]]["echoF2"] = "echo") =>
    \A r \in CallRequests :
      r.name = "echoF2" =>
        IF isToolAllowed("echo", toolToClientMap["echoF2"].name, config)
          THEN SentTo(Outcome(r), toolToClientMap["echoF2"].name, "echo")
          ELSE Outcome(r).error # Undefined /\ Outcome(r).requests = << >>

(***************************************************************************)
(* C7                                                                      *)
(***************************************************************************)
\* the backends of a pass whose list request did not fail
Survivors(clients, failed) == { c \in Range(clients) : c.name \notin failed }

\* C7: whichever backends fail, each discovery kind returns a result that
\* holds every surviving entry of every backend that answered, no entry of a
\* backend that failed, and nothing else besides the composites (tools) and
\* the synthetic restart_server prompt (prompts).
C7_FailuresAreIsolated ==
  /\ (listResult.returned /\ listResult.clean) =>
       LET plain == PlainEntries(listResult.tools)
           alive == Survivors(listResult.clients, listResult.failed)
           Kept(c) == Range(ToolsWithSource(
                        filterTools(BackendTools[c.name],
                                    listResult.config[c.name]), c.name))
       IN  /\ plain = UNION { Kept(c) : c \in alive }
           /\ Len(listResult.tools) = Cardinality(plain) + Len(ToolsConfig)
  /\ promptResult.returned =>
       LET alive == Survivors(promptResult.clients, promptResult.failed)
           Kept(c) == Range(ServerPrompts(BackendPrompts[c.name], c.name))
       IN  /\ Head(promptResult.prompts) = RestartServerPrompt
           /\ Range(Tail(promptResult.prompts)) = UNION { Kept(c) : c \in alive }
           /\ Len(promptResult.prompts) =
                1 + Cardinality(UNION { Kept(c) : c \in alive })
  /\ resourceResult.returned =>
       LET alive == Survivors(resourceResult.clients, resourceResult.failed)
           Kept(c) == Range(ResourcesWithSource(BackendResources[c.name],
                                                c.name))
       IN  /\ Range(resourceResult.resources) = UNION { Kept(c) : c \in alive }
           /\ Len(resourceResult.resources) =
                Cardinality(UNION { Kept(c) : c \in alive })

\* all three kinds have returned, each with F1 failing and F2 answering
C7_Witness ==
  /\ listResult.returned /\ listResult.failed = {"F1"}
  /\ promptResult.returned /\ promptResult.failed = {"F1"}
  /\ resourceResult.returned /\ resourceResult.failed = {"F1"}
  /\ Len(listResult.tools) > Len(ToolsConfig)
  /\ Len(promptResult.prompts) = 3
  /\ Len(resourceResult.resources) = 2

(***************************************************************************)
(* C8                                                                      *)
(***************************************************************************)
\* no backend that answered in the last pass lists the name, and it is no
\* composite
NobodyElseLists(name) ==
  /\ name \notin CompositeNames
  /\ \A c \in Survivors(listResult.clients, listResult.failed) :
       name \notin PublicNames(c.name)

\* C8: once a backend has left the live set and a listTools pass over the
\* remaining set has returned, the catalog has no entry marked with that
\* backend, no key of the tool map points at it, and a call of a name only
\* it offered fails with "Unknown tool" and sends nothing.
C8_RemovedBackendIsForgotten ==
  \A s \in ServerNames :
    (s \notin ClientNames(connectedClients) /\ Settled
       /\ listResult.clients = connectedClients) =>
      /\ \A n \in Names(BackendTools[s]) \cup PublicNames(s) :
           ~ListedFrom(listResult.tools, s, n)
      /\ \A k \in DOMAIN toolToClientMap : toolToClientMap[k].name # s
      /\ \A r \in CallRequests :
           (r.name \in PublicNames(s) /\ NobodyElseLists(r.name)) =>
             /\ Outcome(r).error = "Unknown tool: " \o r.name
             /\ Outcome(r).requests = << >>

\* F1 was listed with its rename by an earlier pass, has left the live set,
\* a pass over F2 alone has returned, and a call of F1's echoF2 has failed
C8_Witness ==
  /\ "F1" \notin ClientNames(connectedClients)
  /\ Settled /\ listResult.clients = connectedClients /\ Answered("F2")
  /\ ConnectedClient("F1") \in DOMAIN toolMappings
  /\ call.status = "failed" /\ call.name = "echoF2"
  /\ call.error = "Unknown tool: echoF2" /\ call.requests = << >>

(***************************************************************************)
(* C9                                                                      *)
(***************************************************************************)
\* this step is the return of a listTools pass
PassReturns ==
  \/ \E p \in PassIds : pass[p].pc = "fetch" /\ pass'[p].pc = "idle"
  \/ passesBegun' # passesBegun /\ listResult'.current

\* C9: when a listTools pass returns that followed a returned pass, neither
\* overlapped, over the same live set, configuration and failing backends,
\* it returns the same set of names as that pass and leaves the tool map as
\* that pass left it.
C9_RepeatedPassIsIdempotent ==
  [][ (PassReturns /\ listResult'.repeat) =>
        /\ Names(listResult'.tools) = Names(listResult.tools)
        /\ toolToClientMap' = listResult.map ]_vars

\* a second pass over unchanged backends has returned a renamed tool and the
\* composite
C9_Witness ==
  /\ Settled /\ listResult.repeat /\ passesBegun = 2
  /\ {"echo", "echoF2", "C"} \subseteq Names(listResult.tools)

(***************************************************************************)
(* C10                                                                     *)
(***************************************************************************)
\* C10: for the composite C with sub-tool t1 on F2, live in the last pass,
\* the catalog has C, and a call of C with {server: F2, tool: t1, args: a}
\* sends exactly one tools/call, to the handle of F2, under the name t1,
\* with arguments a, or {} when args is absent, and the caller's progress
\* token.
C10_CompositeDispatch ==
  (listResult.returned /\ listResult.clean /\ listResult.current
     /\ "F2" \in ClientNames(listResult.clients)) =>
    /\ "C" \in Names(listResult.tools)
    /\ \A r \in CallRequests :
         (r.name = "C" /\ r.arguments.defined /\ r.arguments.server = "F2"
            /\ r.arguments.tool = "t1") =>
           /\ SentTo(Outcome(r), "F2", "t1")
           /\ Outcome(r).requests[1].to = ConnectedClient("F2")
           /\ Outcome(r).requests[1].arguments =
                (IF r.arguments.hasArgs
                   THEN Arguments(Undefined, Undefined, TRUE, r.arguments.args)
                   ELSE EmptyObject)
           /\ Outcome(r).requests[1].meta.progressToken = r.meta.progressToken

\* a call of C for F2's t1 with arguments and a progress token is on its way
C10_Witness ==
  /\ listResult.returned /\ listResult.clean /\ listResult.current
  /\ "F2" \in ClientNames(listResult.clients)
  /\ call.status = "pending" /\ call.name = "C"
  /\ call.arguments = Arguments("F2", "t1", TRUE, <<"x">>)
  /\ call.meta = Meta("tok")
  /\ call.requests =
       << [to |-> ConnectedClient("F2"), method |-> "tools/call",
           name |-> "t1",
           arguments |-> Arguments(Undefined, Undefined, TRUE, <<"x">>),
           meta |-> Meta("tok")] >>

(***************************************************************************)
(* C11                                                                     *)
(***************************************************************************)
\* what the backends of the set S offer, as the pass collects it
AvailableFrom(S) ==
  (IF "F1" \in S THEN WithServerName(BackendTools["F1"], "F1") ELSE << >>)
    \o (IF "F2" \in S THEN WithServerName(BackendTools["F2"], "F2") ELSE << >>)

\* the text is the composite's description with, at the place of its j-th
\* server, a warning that names that server
WarnsAbout(text, tc, j, clients) ==
  \E S \in SUBSET ClientNames(clients) :
    text =
      (IF tc.hasDescription THEN tc.description ELSE DefaultDescription)
        \o "\n\n# Available subtools"
        \o ServersText(SubSeq(tc.subtools, 1, j - 1), clients, AvailableFrom(S))
        \o "\n*Warning: Server " \o tc.subtools[j].server
        \o " not found in connected clients*"
        \o "\n## " \o tc.subtools[j].server
        \o SubtoolsText(tc.subtools[j].tools, tc.subtools[j].server,
                        AvailableFrom(S))
        \o ServersText(SubSeq(tc.subtools, j + 1, Len(tc.subtools)), clients,
                       AvailableFrom(S))

\* the sub-tool routes of one configured server of a composite
SubKeys(tc, j) ==
  { customToolKeyOf(tc.name, tc.subtools[j].server, tc.subtools[j].tools[k].name) :
      k \in 1..Len(tc.subtools[j].tools) }

\* C11: when a listTools pass returns and a composite has a sub-tool on a
\* server that is not in the pass's live set, the pass still returns the
\* composite, its description carries a warning naming that server, the
\* composite's name is in the tool map with the pseudo-client, no sub-tool
\* route of that server is registered by the pass, and the sub-tool routes of
\* the composite's live servers are registered with their handles.
C11_MissingServerIsWarnedAbout ==
  [][ PassReturns =>
        \A i \in 1..Len(ToolsConfig) :
          \A j \in 1..Len(ToolsConfig[i].subtools) :
            LET tc   == ToolsConfig[i]
                live == listResult'.clients
            IN  tc.subtools[j].server \notin ClientNames(live) =>
                  /\ listResult'.returned
                  /\ \E k \in 1..Len(listResult'.tools) :
                       /\ listResult'.tools[k].name = tc.name
                       /\ WarnsAbout(listResult'.tools[k].description, tc, j,
                                     live)
                  /\ tc.name \in DOMAIN toolToClientMap'
                  /\ toolToClientMap'[tc.name] = customClient
                  /\ \A key \in SubKeys(tc, j) :
                       IF key \in DOMAIN customToolToClientMap
                         THEN /\ key \in DOMAIN customToolToClientMap'
                              /\ customToolToClientMap'[key] =
                                   customToolToClientMap[key]
                         ELSE key \notin DOMAIN customToolToClientMap'
                  /\ \A m \in 1..Len(tc.subtools) :
                       \A c \in Range(live) :
                         c.name = tc.subtools[m].server =>
                           \A key \in SubKeys(tc, m) :
                             /\ key \in DOMAIN customToolToClientMap'
                             /\ customToolToClientMap'[key] = c ]_vars

\* a pass over F1 and F2 has returned C, whose server Z is not live, with the
\* warning about Z, and F2's t1 is routed under C while Z's z1 is not
C11_Witness ==
  /\ listResult.returned /\ listResult.current
  /\ ClientNames(listResult.clients) = {"F1", "F2"}
  /\ \E k \in 1..Len(listResult.tools) :
       /\ listResult.tools[k].name = "C"
       /\ WarnsAbout(listResult.tools[k].description, ToolsConfig[1], 2,
                     listResult.clients)
  /\ toolToClientMap["C"] = customClient
  /\ "C:Z:z1" \notin DOMAIN customToolToClientMap
  /\ customToolToClientMap["C:F2:t1"] = ConnectedClient("F2")

(***************************************************************************)
(* C12                                                                     *)
(***************************************************************************)
\* C12: when a listTools pass has returned, for every composite, every
\* server S configured under it that was in the pass's live set and every
\* sub-tool t configured for S, the key "<composite>:<S>:<t>" is in the
\* composite-subkey map and maps to the handle of S the pass iterated.
C12_SubkeysResolveToLiveHandles ==
  (listResult.returned /\ listResult.current) =>
    \A i \in 1..Len(ToolsConfig) :
      \A j \in 1..Len(ToolsConfig[i].subtools) :
        \A k \in 1..Len(ToolsConfig[i].subtools[j].tools) :
          \A c \in Range(listResult.clients) :
            LET S   == ToolsConfig[i].subtools[j].server
                t   == ToolsConfig[i].subtools[j].tools[k].name
                key == ToolsConfig[i].name \o ":" \o S \o ":" \o t
            IN  c.name = S =>
                  /\ key \in DOMAIN customToolToClientMap
                  /\ customToolToClientMap[key] = c

\* a pass over F2 has returned and the sub-tools of both composites on F2 are
\* routed to F2's handle under keys that begin with the composite's name
C12_Witness ==
  /\ listResult.returned /\ listResult.current
  /\ ConnectedClient("F2") \in Range(listResult.clients)
  /\ DOMAIN customToolToClientMap = {"C:F2:t1", "D:F2:echo"}
  /\ customToolToClientMap["C:F2:t1"] = ConnectedClient("F2")
  /\ customToolToClientMap["D:F2:echo"] = ConnectedClient("F2")

(***************************************************************************)
(* C13                                                                     *)
(***************************************************************************)
\* the name resolves to the pseudo-client: the call is a composite call
IsCompositeCall(r) ==
  /\ r.name \in CompositeNames
  /\ r.name \in DOMAIN toolToClientMap
  /\ toolToClientMap[r.name] = customClient

\* both fields of the arguments object are strings
WellFormed(a) ==
  /\ a.defined /\ a.isObject
  /\ TypeOf(a.server) = "string" /\ TypeOf(a.tool) = "string"

\* sub-tool t on server S is configured under the composite of this name
ConfiguredUnder(name, S, t) ==
  \E i \in 1..Len(ToolsConfig) :
    /\ ToolsConfig[i].name = name
    /\ \E j \in 1..Len(ToolsConfig[i].subtools) :
         /\ ToolsConfig[i].subtools[j].server = S
         /\ \E k \in 1..Len(ToolsConfig[i].subtools[j].tools) :
              ToolsConfig[i].subtools[j].tools[k].name = t

\* C13: a call of a composite with well-formed {server: S, tool: t} where
\* (S, t) is not configured under that composite fails with
\* "Unknown subtool: S/t for tool <composite>" and sends no request, whatever
\* S offers and whatever is configured under other composites.
C13_UnconfiguredSubtoolIsUnknown ==
  \A r \in CompositeCallRequests :
    (IsCompositeCall(r) /\ WellFormed(r.arguments)
       /\ ~ConfiguredUnder(r.name, r.arguments.server, r.arguments.tool)) =>
      /\ Outcome(r).error =
           "Unknown subtool: " \o r.arguments.server \o "/" \o r.arguments.tool
             \o " for tool " \o r.name
      /\ Outcome(r).requests = << >>

\* F2 is live and lists echo, echo on F2 is routed under composite D, and a
\* call of composite C for F2's echo has failed as an unknown sub-tool
C13_Witness ==
  /\ listResult.returned /\ listResult.current
  /\ ListedFrom(listResult.tools, "F2", "echo")
  /\ "D:F2:echo" \in DOMAIN customToolToClientMap
  /\ toolToClientMap["C"] = customClient
  /\ call.status = "failed" /\ call.name = "C"
  /\ call.arguments = Arguments("F2", "echo", TRUE, <<"x">>)
  /\ call.error = "Unknown subtool: F2/echo for tool C"
  /\ call.requests = << >>

(***************************************************************************)
(* C14                                                                     *)
(***************************************************************************)
\* the part of a malformed arguments value a validation error has to name
OffendingField(a) ==
  IF ~a.isObject THEN "arguments"
  ELSE IF TypeOf(a.server) # "string" THEN "server"
  ELSE "tool"

UpdateRuns(s) ==
  /\ restart[s].pc = "connect" /\ restart'[s].pc = "idle"
  /\ registry' # registry

\* map m2 is map m with every entry whose handle is named s set to new
Rewritten(m, m2, s, new) ==
  /\ DOMAIN m2 = DOMAIN m
  /\ \A k \in DOMAIN m : m2[k] = IF m[k].name = s THEN new ELSE m[k]

\* C15: the step in which updateConnectedClient(s, new) runs maps every key
\* of the tool, composite-subkey, resource and prompt maps whose handle was
\* named s to the new handle, leaves every other entry as it was, and leaves
\* the registry with the new handle as its only handle named s; all of it is
\* one step, so no state has only some of the maps rewritten.
C15_UpdateRewritesEveryKeySpace ==
  [][ \A s \in ServerNames :
        UpdateRuns(s) =>
          \E new \in registry' \ registry :
            /\ new.name = s
            /\ new \notin registry
            /\ Rewritten(toolToClientMap, toolToClientMap', s, new)
            /\ Rewritten(customToolToClientMap, customToolToClientMap', s, new)
            /\ Rewritten(resourceToClientMap, resourceToClientMap', s, new)
            /\ Rewritten(promptToClientMap, promptToClientMap', s, new)
            /\ \A h \in registry' : h.name = s => h = new
            /\ \A h \in registry : h.name # s => h \in registry' ]_vars

\* F2 has been restarted after discovery of the three kinds, and its keys in
\* all four maps hold the new handle
C15_Witness ==
  LET new == [ConnectedClient("F2") EXCEPT !.gen = 1]
  IN  /\ registry = {ConnectedClient("F1"), new}
      /\ restart["F2"].pc = "idle"
      /\ "t1" \in DOMAIN toolToClientMap /\ toolToClientMap["t1"] = new
      /\ "C:F2:t1" \in DOMAIN customToolToClientMap
      /\ customToolToClientMap["C:F2:t1"] = new
      /\ "r2" \in DOMAIN resourceToClientMap /\ resourceToClientMap["r2"] = new
      /\ "p2" \in DOMAIN promptToClientMap /\ promptToClientMap["p2"] = new
      /\ toolToClientMap["C"] = customClient

(***************************************************************************)
(* C16                                                                     *)
(***************************************************************************)
\* the handle has been replaced: the registry holds a newer handle of its name
Replaced(h) ==
  \E n \in registry : n.name = h.name /\ n.gen > h.gen

\* C16: once a restart has replaced a handle, a listTools pass that begins
\* iterates no replaced handle, so that its list requests go to the new
\* handle and its names are registered against it, and a call that is
\* dispatched is not sent to a replaced handle.
C16_RestartedHandleIsUsed ==
  [][ /\ \A p \in PassIds :
           (pass[p].pc = "idle" /\ pass'[p].pc = "fetch") =>
             \A c \in Range(pass'[p].clients) : ~Replaced(c)
      /\ (call' # call /\ call'.status = "pending") =>
           ~Replaced(call'.requests[1].to) ]_vars

(***************************************************************************)
(* C17                                                                     *)
(***************************************************************************)
\* the handles a pass at this place of its loop has sent its list request to
Issued(ps) == { ps.clients[i] : i \in 1..ps.idx }

\* C17: whenever a discovery pass of any kind waits for the response of a
\* backend, it has issued its list request to every backend it iterates.
C17_RequestsIssuedBeforeWaiting ==
  /\ \A p \in PassIds :
       pass[p].pc = "fetch" => Issued(pass[p]) = Range(pass[p].clients)
  /\ promptPass.pc = "fetch" => Issued(promptPass) = Range(promptPass.clients)
  /\ resourcePass.pc = "fetch" =>
       Issued(resourcePass) = Range(resourcePass.clients)

(***************************************************************************)
(* C18                                                                     *)
(***************************************************************************)
\* the returned list has an entry that carries the marker of backend s
HasToolOf(tools, s) ==
  \E name \in Names(BackendTools[s]) \cup {"echoF2"} : ListedFrom(tools, s, name)

HasPromptOf(prompts, s) ==
  \E i \in 1..Len(prompts) :
    \E q \in Range(BackendPrompts[s]) :
      prompts[i].description = "[" \o s \o "] " \o q.description

HasResourceOf(resources, s) ==
  \E i \in 1..Len(resources) :
    \E q \in Range(BackendResources[s]) :
      resources[i].name = "[" \o s \o "] " \o q.name

\* what the claim says of one returned pass: a backend whose request failed
\* has no entry; it has a log record unless the error was "Method not found"
LoggedUnlessUnsupported(r, s, hasEntry) ==
  /\ s \in r.failed => ~hasEntry
  /\ s \in r.unsupported => s \notin r.logged
  /\ s \in r.failed \ r.unsupported => s \in r.logged

\* C18: in a returned pass of each kind, a backend whose list request failed
\* with "Method not found" has no entry in the list and no error-log record,
\* and a backend whose request failed otherwise has no entry and is logged.
C18_UnsupportedMethodIsSilent ==
  \A s \in ServerNames :
    /\ listResult.returned =>
         LoggedUnlessUnsupported(listResult, s,
                                 HasToolOf(listResult.tools, s))
    /\ promptResult.returned =>
         LoggedUnlessUnsupported(promptResult, s,
                                 HasPromptOf(promptResult.prompts, s))
    /\ resourceResult.returned =>
         LoggedUnlessUnsupported(resourceResult, s,
                                 HasResourceOf(resourceResult.resources, s))

(***************************************************************************)
(* C19                                                                     *)
(***************************************************************************)
\* what a plain pass-through of the request to handle h comes to: the access
\* check against the configuration of h's server, then one tools/call to h
\* under the requested name with the caller's arguments and metadata
PlainDispatch(r, h) ==
  IF validateToolAccess(r.name, Undefined, config[h.name]) # Undefined
    THEN [error |-> validateToolAccess(r.name, Undefined, config[h.name]),
          requests |-> << >>]
    ELSE [error |-> Undefined,
          requests |->
            << [to |-> h, method |-> "tools/call", name |-> r.name,
                arguments |-> IF r.arguments.defined THEN r.arguments
                              ELSE EmptyObject,
                meta |-> r.meta] >>]

\* C19: a call whose name resolves to the composite pseudo-client itself is
\* handled as a composite call, and a call whose name resolves to any other
\* handle, one of a backend named "custom" included, is checked against that
\* backend's policy and passed through to it.
C19_CompositeByIdentity ==
  \A r \in CustomNameCallRequests :
    r.name \in DOMAIN toolToClientMap =>
      LET h == toolToClientMap[r.name]
      IN  IF h = customClient
            THEN /\ Outcome(r).error =
                      handleCustomToolCall(r.name, r.arguments, r.meta).error
                 /\ Outcome(r).requests =
                      handleCustomToolCall(r.name, r.arguments, r.meta).requests
            ELSE /\ Outcome(r).error = PlainDispatch(r, h).error
                 /\ Outcome(r).requests = PlainDispatch(r, h).requests

(***************************************************************************)
(* C20                                                                     *)
(***************************************************************************)
\* the last of the handles a pass iterated that answered and offers the key
LastOffering(clients, failed, Offers(_)) ==
  LET I == { i \in 1..Len(clients) :
               clients[i].name \notin failed /\ Offers(clients[i].name) }
  IN  clients[CHOOSE i \in I : \A j \in I : j <= i]

\* the plain entries a pass over these handles has to return, in order
RECURSIVE PlainCatalog(_, _, _)
PlainCatalog(clients, failed, cfg) ==
  IF clients = << >> THEN << >>
  ELSE (IF Head(clients).name \in failed THEN << >>
        ELSE ToolsWithSource(
               filterTools(BackendTools[Head(clients).name],
                           cfg[Head(clients).name]),
               Head(clients).name))
         \o PlainCatalog(Tail(clients), failed, cfg)

ToolCallArrives == call.status # "pending" /\ call' # call
GetPromptArrives ==
  /\ promptCall.status \notin {"pending", "restarting"}
  /\ promptCall' # promptCall
ReadResourceArrives ==
  resourceCall.status # "pending" /\ resourceCall' # resourceCall

\* C21: a tools/call, prompts/get or resources/read for a name or URI that
\* has no entry in its key space when the handler runs fails with an error
\* that carries the name or URI, and no request is sent to any backend
C21_UnknownNameFailsWithoutRequest ==
  [][ /\ (ToolCallArrives /\ call'.name \notin DOMAIN toolToClientMap) =>
           /\ call'.status = "failed"
           /\ call'.error = "Unknown tool: " \o call'.name
           /\ call'.requests = << >>
      /\ (GetPromptArrives /\ promptCall'.name \notin DOMAIN promptToClientMap
           /\ promptCall'.name # "restart_server") =>
           /\ promptCall'.status = "failed"
           /\ promptCall'.error = "Unknown prompt: " \o promptCall'.name
           /\ promptCall'.requests = << >>
      /\ (ReadResourceArrives
           /\ resourceCall'.uri \notin DOMAIN resourceToClientMap) =>
           /\ resourceCall'.status = "failed"
           /\ resourceCall'.error = "Unknown resource: " \o resourceCall'.uri
           /\ resourceCall'.requests = << >>
    ]_vars

\* discovery has filled the three key spaces and a call of each kind for the
\* name nope has failed
C21_Witness ==
  /\ "t1" \in DOMAIN toolToClientMap /\ "nope" \notin DOMAIN toolToClientMap
  /\ "p1" \in DOMAIN promptToClientMap
  /\ "r1" \in DOMAIN resourceToClientMap
  /\ call.status = "failed" /\ call.error = "Unknown tool: nope"
  /\ promptCall.status = "failed"
  /\ promptCall.error = "Unknown prompt: nope"
  /\ resourceCall.status = "failed"
  /\ resourceCall.error = "Unknown resource: nope"

(***************************************************************************)
(* Failing backend requests of tool calls                                  *)
(***************************************************************************)
\* the backend request of the last call was rejected
BackendFailed == call.status = "failed" /\ call.rejection # Undefined

\* C22: when the backend request of a tools/call, plain or composite, is
\* rejected, the caller's error is the very error of the rejection, and that
\* call has sent exactly one backend request: no retry and no other backend
C22_BackendErrorPropagatesVerbatim ==
  BackendFailed =>
    /\ call.error = call.rejection
    /\ Len(call.requests) = 1
    /\ call.result = Undefined

\* the request of a call of composite C for F2's t1 was rejected with the
\* error "/h"
C22_Witness ==
  /\ BackendFailed /\ call.name = "C"
  /\ call.rejection = "/h" /\ call.error = "/h"
  /\ call.requests[1].to = ConnectedClient("F2")
  /\ call.requests[1].name = "t1"

(***************************************************************************)
(* Environment variables around a plain call                               *)
(***************************************************************************)
\* the last call was dispatched to a backend as a plain call and has settled
PlainSettled ==
  /\ call.status \in {"returned", "failed"}
  /\ call.requests # << >>
  /\ call.name \notin CompositeNames

\* the arguments of the request are the caller's with the variables of the
\* backend put in
ExpandedBefore ==
  call.requests[1].arguments =
    IF call.arguments.defined
      THEN expandEnvVars(call.arguments,
                         EnvVarsOf(call.requests[1].to.name,
                                   config[call.requests[1].to.name]))
      ELSE EmptyObject

\* C23: for a plain call that was dispatched, the request carries the
\* expanded arguments, and what the backend produced, result or error,
\* reaches the caller only with the variables put back
C23_UnexpandedWhateverTheOutcome ==
  PlainSettled =>
    /\ ExpandedBefore
    /\ call.status = "returned" =>
         call.result = unexpandEnvVars(ToolResult, call.envVars)
    /\ call.status = "failed" =>
         call.error = unexpandEnvVars(call.rejection, call.envVars)

\* the part of C23 about results: arguments expanded, result unexpanded
ResultIsUnexpanded ==
  (PlainSettled /\ call.status = "returned") =>
    /\ ExpandedBefore
    /\ call.result = unexpandEnvVars(ToolResult, call.envVars)

(***************************************************************************)
(* Calls the exposure policy rejects                                       *)
(***************************************************************************)
\* the name the backend knows the tool of this public name by
BackendNameOf(n) ==
  LET h == toolToClientMap[n]
  IN  IF h \in DOMAIN toolMappings /\ n \in DOMAIN toolMappings[h]
        THEN toolMappings[h][n] ELSE n

\* the policy of the backend the name resolves to has an allow-list without
\* the tool
AllowListMiss(n) ==
  LET cfg == config[toolToClientMap[n].name]
  IN  /\ cfg.defined /\ cfg.hasExposed
      /\ \A i \in 1..Len(cfg.exposedTools) :
           cfg.exposedTools[i].original # BackendNameOf(n)

\* the policy of the backend the name resolves to has a deny-list with the
\* tool
DenyListHit(n) ==
  LET cfg == config[toolToClientMap[n].name]
  IN  /\ cfg.defined /\ cfg.hasHidden
      /\ \E i \in 1..Len(cfg.hiddenTools) :
           cfg.hiddenTools[i] = BackendNameOf(n)

\* the step is a tools/call for a name that resolves to a backend's handle
PlainCallArrives ==
  /\ ToolCallArrives
  /\ call'.name \in DOMAIN toolToClientMap
  /\ toolToClientMap[call'.name].name # "custom"

\* C24: a plain call the policy of its backend rejects fails, without a
\* request, with an error that names the tool and the backend and tells an
\* allow-list miss from a deny-list hit
C24_RejectionNamesToolAndBackend ==
  [][ PlainCallArrives =>
        LET n == call'.name
            b == toolToClientMap[n].name
        IN  /\ AllowListMiss(n) =>
                 /\ call'.status = "failed" /\ call'.requests = << >>
                 /\ call'.error =
                      "Tool " \o n \o " is not exposed by server " \o b
            /\ (~AllowListMiss(n) /\ DenyListHit(n)) =>
                 /\ call'.status = "failed" /\ call'.requests = << >>
                 /\ call'.error = "Tool " \o n \o " is hidden on server " \o b
    ]_vars

\* what does hold of a rejected call: no request, the tool named, the two
\* kinds of rejection told apart
RejectionNamesTool ==
  [][ PlainCallArrives =>
        LET n == call'.name
        IN  /\ AllowListMiss(n) =>
                 /\ call'.status = "failed" /\ call'.requests = << >>
                 /\ call'.error = "Tool " \o n \o " is not exposed by server"
            /\ (~AllowListMiss(n) /\ DenyListHit(n)) =>
                 /\ call'.status = "failed" /\ call'.requests = << >>
                 /\ call'.error = "Tool " \o n \o " is hidden"
            /\ (~AllowListMiss(n) /\ ~DenyListHit(n)) =>
                 /\ call'.status = "pending" /\ Len(call'.requests) = 1
    ]_vars

(***************************************************************************)
(* Order of the tools list                                                 *)
(***************************************************************************)
\* every tool the iterated backends offer with its backend's name, in
\* iteration order and, within a backend, in the order of its answer
RECURSIVE AllOffered(_)
AllOffered(clients) ==
  IF clients = << >> THEN << >>
  ELSE WithServerName(BackendTools[Head(clients).name], Head(clients).name)
         \o AllOffered(Tail(clients))

\* the places in the offer the entry can have come from: same schema, and
\* the description of that tool under the marker of that backend
PlacesOf(entry, offered) ==
  { k \in 1..Len(offered) :
      /\ offered[k].tool.inputSchema = entry.inputSchema
      /\ PrefixDescription(offered[k].tool, offered[k].serverName).description
           = entry.description }

\* C25: the list a tools pass returns is, first, entries of the iterated
\* backends that answered, each tool the policy lets through occurring once
\* and the entries standing in the order of iteration and, within a backend,
\* of its answer; then the composites in the order of the configuration
C25_CatalogKeepsOrder ==
  listResult.returned =>
    LET tools == listResult.tools
        nPlain == Len(tools) - Len(ToolsConfig)
        offered == AllOffered(listResult.clients)
        Place(i) == CHOOSE k \in PlacesOf(tools[i], offered) : TRUE
    IN  /\ nPlain >= 0
        /\ \A i \in 1..nPlain :
             /\ Cardinality(PlacesOf(tools[i], offered)) = 1
             /\ offered[Place(i)].serverName \notin listResult.failed
        /\ \A i, j \in 1..nPlain : i < j => Place(i) < Place(j)
        /\ \A k \in 1..Len(offered) :
             (/\ offered[k].serverName \notin listResult.failed
              /\ isToolAllowed(offered[k].tool.name, offered[k].serverName,
                               listResult.config))
               => \E i \in 1..nPlain : k \in PlacesOf(tools[i], offered)
        /\ \A i \in 1..Len(ToolsConfig) :
             tools[nPlain + i].name = ToolsConfig[i].name

\* F2 and then F1 have answered: F2's echo, F2's t1 under the name D and
\* F1's echo are listed in this order, before the composites
C25_Witness ==
  /\ listResult.returned /\ listResult.failed = {}
  /\ listResult.clients = << ConnectedClient("F2"), ConnectedClient("F1") >>
  /\ Len(listResult.tools) = 3 + Len(ToolsConfig)
  /\ listResult.tools[1] = PrefixDescription(Tool("echo"), "F2")
  /\ listResult.tools[2].name = "D"
  /\ listResult.tools[2].originalName = "t1"
  /\ listResult.tools[3] = PrefixDescription(Tool("echo"), "F1")

(***************************************************************************)
(* The backend marker of descriptions                                      *)
(***************************************************************************)
\* the description is the marker of backend s and then the description d the
\* backend gave, nothing when it gave none
Marked(description, s, d) ==
  description = "[" \o s \o "] " \o (IF d = Undefined THEN "" ELSE d)

\* every plain entry of the returned tools list is some tool of an iterated
\* backend with that backend's marker in front of its description, once
ToolsAreMarkedOnce ==
  listResult.returned =>
    \A i \in 1..(Len(listResult.tools) - Len(ToolsConfig)) :
      \E s \in ClientNames(listResult.clients) :
        \E t \in Range(BackendTools[s]) :
          /\ listResult.tools[i].inputSchema = t.inputSchema
          /\ Marked(listResult.tools[i].description, s, t.description)

\* every entry of the returned prompts list after the synthetic one is some
\* prompt of an iterated backend with that backend's marker in front, once
PromptsAreMarkedOnce ==
  promptResult.returned =>
    \A i \in 2..Len(promptResult.prompts) :
      \E s \in ClientNames(promptResult.clients) :
        \E q \in Range(BackendPrompts[s]) :
          /\ promptResult.prompts[i].name = q.name
          /\ Marked(promptResult.prompts[i].description, s, q.description)

\* C26: every plain tool entry and every backend prompt entry of a discovery
\* response has the description '[' backend '] ' followed by the description
\* the backend gave, the marker once; an entry the backend gave no
\* description has exactly '[' backend '] '
C26_MarkerThenDescription == ToolsAreMarkedOnce /\ PromptsAreMarkedOnce

(***************************************************************************)
(* The restart_server prompt                                               *)
(***************************************************************************)
\* the servers the configuration has
InConfiguration == { s \in ServerNames : config[s].defined }

\* the step is an invocation of the prompt restart_server
RestartPromptArrives ==
  GetPromptArrives /\ promptCall'.name = "restart_server"

\* the last prompt was restart_server for all servers and has returned
AllRestarted ==
  /\ promptCall.name = "restart_server" /\ promptCall.status = "returned"
  /\ ToLowerCase(promptCall.server) = "all"

\* the registry has a handle of server s that restartClient did not find
\* there, in the place of the one it found
ReplacedSince(s, found) ==
  /\ found # {}
  /\ found \cap registry = {}
  /\ \E h \in registry : h.name = s

\* C27: restart_server for all servers begins one restartClient for every
\* server of the configuration and for no other, and reports n/m with m the
\* number of configured servers and n the number of success flags; the flag
\* of a server is true exactly when the registry holds a new handle in the
\* place of the one the server had
C27_RestartAllTallies ==
  /\ [](AllRestarted =>
          LET flags == promptCall.metadata.restarted_servers
              n == Cardinality({ s \in DOMAIN flags : flags[s] })
              m == Cardinality(InConfiguration)
          IN  /\ DOMAIN flags = InConfiguration
              /\ promptCall.result =
                   "Restarted " \o ToString(n) \o "/" \o ToString(m)
                     \o " servers."
              /\ \A s \in InConfiguration :
                   flags[s] <=> ReplacedSince(s, promptCall.looked[s]))
  /\ [][ (RestartPromptArrives /\ ToLowerCase(promptCall'.server) = "all") =>
           /\ restartsBegun' = restartsBegun + Cardinality(InConfiguration)
           /\ \A s \in ServerNames :
                IF s \in InConfiguration /\ getClientByName(registry, s) # {}
                  THEN restart'[s].pc = "cleanup"
                  ELSE restart'[s].pc = "idle" ]_vars

\* F1 and F2 are configured and connected; restart_server for all servers
\* has returned 1/2: F1 has a new handle, the reconnection of F2 failed
C27_Witness ==
  /\ AllRestarted
  /\ InConfiguration = {"F1", "F2"}
  /\ promptCall.result = "Restarted 1/2 servers."
  /\ promptCall.metadata.restarted_servers["F1"]
  /\ ~promptCall.metadata.restarted_servers["F2"]
  /\ registry = { [ConnectedClient("F1") EXCEPT !.gen = 1],
                  ConnectedClient("F2") }

\* the registry, the four key spaces, the closed transports and the
\* restarts under way are what they were
NothingRestarted ==
  UNCHANGED << registry, toolToClientMap, customToolToClientMap,
               promptToClientMap, resourceToClientMap, closed, restart >>

\* C28: restart_server with no server argument or one that is not a string
\* throws, and with a server name the configuration does not have returns a
\* failure result without throwing; either way no restart is begun, the
\* registry and the four key spaces stay as they are and no backend is
\* disconnected
C28_BadServerArgumentRestartsNothing ==
  [][ RestartPromptArrives =>
        /\ TypeOf(promptCall'.server) # "string" =>
             /\ promptCall'.status = "failed"
             /\ promptCall'.error =
                  "Server name is required to restart a server"
             /\ NothingRestarted
        /\ (/\ TypeOf(promptCall'.server) = "string"
            /\ ToLowerCase(promptCall'.server) # "all"
            /\ promptCall'.server \notin InConfiguration) =>
             /\ promptCall'.status = "returned"
             /\ promptCall'.error = Undefined
             /\ promptCall'.result =
                  "Error restarting server: Server '" \o promptCall'.server
                    \o "' not found in configuration"
             /\ ~promptCall'.metadata.success
             /\ NothingRestarted
    ]_vars

\* after discovery, restart_server for F2, which is connected and absent
\* from the configuration, has returned the failure result
C28_Witness ==
  /\ promptCall.name = "restart_server" /\ promptCall.status = "returned"
  /\ promptCall.server = "F2" /\ "F2" \notin InConfiguration
  /\ promptCall.result =
       "Error restarting server: Server 'F2' not found in configuration"
  /\ registry = {ConnectedClient("F1"), ConnectedClient("F2")}
  /\ closed = {}
  /\ "t1" \in DOMAIN toolToClientMap
  /\ "p2" \in DOMAIN promptToClientMap

(***************************************************************************)
(* A composite that cannot be built                                        *)
(***************************************************************************)
\* the configured composites whose every subtools entry has its tools
Buildable ==
  SelectSeq(configTools,
            LAMBDA tc : \A j \in 1..Len(tc.subtools) :
                          "tools" \in DOMAIN tc.subtools[j])

\* C29: when a configured composite cannot be built, a returned tools pass
\* has every plain entry of the backends that answered and then every other
\* composite, each registered under the pseudo-client; the composite that
\* failed is neither listed nor registered; and the pass returns
C29_OtherCompositesSurvive ==
  /\ [](listResult.returned =>
          LET plain == PlainCatalog(listResult.clients, listResult.failed,
                                    listResult.config)
          IN  /\ Len(listResult.tools) = Len(plain) + Len(Buildable)
              /\ SubSeq(listResult.tools, 1, Len(plain)) = plain
              /\ \A i \in 1..Len(Buildable) :
                   listResult.tools[Len(plain) + i].name = Buildable[i].name
              /\ \A i \in 1..Len(configTools) :
                   LET n == configTools[i].name
                   IN  IF \E k \in 1..Len(Buildable) : Buildable[k].name = n
                         THEN listResult.current =>
                                /\ n \in DOMAIN toolToClientMap
                                /\ toolToClientMap[n] = customClient
                         ELSE /\ n \notin Names(listResult.tools)
                              /\ n \notin DOMAIN toolToClientMap)
  /\ [][ \A p \in PassIds :
           (pass[p].pc = "fetch" /\ pass'[p].pc = "idle") =>
             listResult'.returned ]_vars

\* both backends have answered a pass under the configuration with C, B and
\* D: the list ends with C and D, both registered, and B is nowhere
C29_Witness ==
  /\ listResult.returned /\ listResult.current /\ listResult.failed = {}
  /\ Len(configTools) = 3 /\ configTools[2].name = "B"
  /\ Len(listResult.tools) = 5
  /\ listResult.tools[4].name = "C" /\ listResult.tools[5].name = "D"
  /\ toolToClientMap["C"] = customClient
  /\ toolToClientMap["D"] = customClient
  /\ "B" \notin DOMAIN toolToClientMap

(***************************************************************************)
(* What calls leave alone                                                  *)
(***************************************************************************)
\* the step belongs to a tools/call, to a prompts/get of a backend prompt or
\* to a resources/read: its arrival or the settling of its request
CallStep ==
  \/ call' # call
  \/ promptCall' # promptCall /\ promptCall'.name # "restart_server"
  \/ resourceCall' # resourceCall

\* C30: no step of a tools/call, plain or composite, succeeding or failing,
\* of a prompts/get of a backend prompt or of a resources/read changes the
\* tool, composite-subkey, prompt or resource map, the registry of handles
\* or the name mappings kept on the handles
C30_CallsLeaveTheMapsAlone ==
  [][ CallStep =>
        UNCHANGED << toolToClientMap, customToolToClientMap,
                     promptToClientMap, resourceToClientMap, registry,
                     toolMappings >> ]_vars

\* after discovery of the three kinds a composite call has returned, a
\* prompts/get has returned and a resources/read has failed at the backend,
\* and the maps still hold what discovery put there
C30_Witness ==
  /\ call.status = "returned" /\ call.name = "C"
  /\ promptCall.status = "returned" /\ promptCall.name = "p1"
  /\ resourceCall.status = "failed" /\ resourceCall.uri = "r1"
  /\ resourceCall.error = "backend error"
  /\ toolToClientMap["C"] = customClient
  /\ customToolToClientMap["C:F2:t1"] = ConnectedClient("F2")
  /\ promptToClientMap["p1"] = ConnectedClient("F2")
  /\ resourceToClientMap["r1"] = ConnectedClient("F2")
  /\ registry = {ConnectedClient("F1"), ConnectedClient("F2")}

(***************************************************************************)
(* Sub-tool routes left over from earlier passes                           *)
(***************************************************************************)
\* the routes a pass over these handles registers: sub-tools configured
\* under a composite whose server is among the handles
RoutesOf(clients) ==
  UNION { UNION { SubKeys(ToolsConfig[i], j) :
                    j \in { m \in 1..Len(ToolsConfig[i].subtools) :
                              ToolsConfig[i].subtools[m].server
                                \in ClientNames(clients) } } :
            i \in 1..Len(ToolsConfig) }

\* the last pass has returned and no pass is in flight
PassesDone == listResult.returned /\ listResult.current /\ InFlight = {}

\* C31: once a tools pass has returned, every key of the composite-subkey
\* map is a configured sub-tool whose server was among the handles of that
\* pass, and a composite call for a sub-tool of a server that was not fails
\* with unknown subtool and sends no request
C31_NoRouteLeftOver ==
  PassesDone =>
    /\ DOMAIN customToolToClientMap \subseteq RoutesOf(listResult.clients)
    /\ \A r \in CallRequests :
         (/\ IsCompositeCall(r) /\ WellFormed(r.arguments)
          /\ r.arguments.server \notin ClientNames(listResult.clients)) =>
           /\ Outcome(r).requests = << >>
           /\ Outcome(r).error =
                "Unknown subtool: " \o r.arguments.server \o "/"
                  \o r.arguments.tool \o " for tool " \o r.name

\* what does hold: every key is a configured sub-tool whose server was among
\* the handles of some pass so far
RoutesAreConfigured ==
  DOMAIN customToolToClientMap
    \subseteq RoutesOf(<< ConnectedClient("F1"), ConnectedClient("F2") >>)

(***************************************************************************)
(* C32                                                                     *)
(***************************************************************************)
\* the backends whose policy lets a tool through under this public name
OwnersOf(name) == { s \in {"F1", "F2"} : name \in PublicNames(s) }

\* the name backend s itself has for the tool it lists under this public name
OriginalOf(s, name) ==
  LET listed == filterTools(BackendTools[s], config[s])
      e == listed[CHOOSE i \in 1..Len(listed) : listed[i].name = name]
  IN  IF e.originalName # Undefined THEN e.originalName ELSE name

\* the call is answered by the owner s of the name: refused by the access
\* check of s, or sent to s as one request under the backend's own name
RoutedToOwner(out, s, name) ==
  \/ /\ out.requests = << >>
     /\ out.error # Undefined
     /\ out.error =
          validateToolAccess(name,
            IF OriginalOf(s, name) # name THEN OriginalOf(s, name)
            ELSE Undefined, config[s])
  \/ /\ out.error = Undefined
     /\ Len(out.requests) = 1
     /\ out.requests[1].to.name = s
     /\ out.requests[1].name = OriginalOf(s, name)

SuppliersOf(tools, name) ==
  { s \in {"F1", "F2"} : ListedFrom(tools, s, name) }

\* the step in which the second of two overlapping passes returns: no pass is
\* in flight afterwards, and the result standing before the step is that of
\* a pass that returned after this one had begun
BothReturn ==
  /\ InFlight # {} /\ InFlight' = {}
  /\ listResult.returned /\ listResult.current
  /\ listResult'.returned /\ ~listResult'.clean

\* the key is in the tool map and points at a backend that supplied the name
\* to one of the two catalogs, or at the pseudo-client for a composite
EntryOfSupplier(map, name, first, second) ==
  /\ name \in DOMAIN map
  /\ \/ map[name].name \in SuppliersOf(first, name) \cup SuppliersOf(second, name)
     \/ name \in CompositeNames /\ map[name] = customClient

RenameOntoT1 == ServerConfig(TRUE, <<Mapping("echo", "t1")>>, FALSE, <<>>)

\* the policies F2 goes through: the rename, t1 alone, no filtering
RemapChoices ==
  { RenameOntoT1, ServerConfig(TRUE, <<Str("t1")>>, FALSE, <<>>),
    ServerConfig(FALSE, <<>>, FALSE, <<>>) }

RemapCallRequests ==
  { CallRequest("t1", NoArguments, NoMeta),
    CallRequest("echo", NoArguments, NoMeta) }

InitRemap ==
  InitWith(ClientOrders,
           { [F1 |-> NoServerConfig, F2 |-> c] : c \in RemapChoices })

NextRemap ==
  \/ ListToolsBegin(1)
  \/ \E ok \in BOOLEAN : ListToolsResponse(1, ok)
  \/ \E r \in RemapCallRequests : HandleToolCall(r.name, r.arguments, r.meta)
  \/ \E ok \in BOOLEAN : ToolCallResponse(ok)
  \/ \E c \in RemapChoices : ChangeServerConfig("F2", c)

SpecRemap == InitRemap /\ [][NextRemap]_vars

\* C34: when the latest listTools pass has returned and lists t1 as F2's own
\* tool t1 (not as a rename), a call of t1 is dispatched to F2 under the name
\* t1, whatever renames earlier passes stored on the handle.
C34_RemapIsOfLatestPass ==
  (/\ Settled /\ Answered("F2")
   /\ ListedAs(listResult.tools, "F2", "t1", "t1")
   /\ ~ListedAs(listResult.tools, "F2", "echo", "t1")) =>
    SentTo(Outcome(CallRequest("t1", NoArguments, NoMeta)), "F2", "t1")

(***************************************************************************)
(* C35                                                                     *)
(***************************************************************************)
\* F2, with or without the rename of echo to echoF2, is restarted between
\* discovery and calls
RenamedCallRequests ==
  { CallRequest("echoF2", NoArguments, NoMeta),
    CallRequest("t1", NoArguments, NoMeta) }

InitRenamed ==
  InitWith({ << ConnectedClient("F1"), ConnectedClient("F2") >> },
           { [F1 |-> NoServerConfig, F2 |-> c] :
               c \in {RenameOnly, NoServerConfig} })

NextRenamed ==
  \/ ListToolsBegin(1)
  \/ \E ok \in BOOLEAN : ListToolsResponse(1, ok)
  \/ \E r \in RenamedCallRequests :
       HandleToolCall(r.name, r.arguments, r.meta)
  \/ \E ok \in BOOLEAN : ToolCallResponse(ok)
  \/ RestartBegin("F2")
  \/ \E ok \in BOOLEAN : RestartCleanup("F2", ok)
  \/ \E ok \in BOOLEAN : RestartConnect("F2", ok)

SpecRenamed == InitRenamed /\ [][NextRenamed]_vars

\* the restart of s has returned its new handle, and the key still points at
\* it: no discovery pass has registered the key since
RestartedUnder(s, key) ==
  /\ restart[s].pc = "idle" /\ restart[s].returned = "client"
  /\ InFlight = {}
  /\ key \in DOMAIN toolToClientMap
  /\ toolToClientMap[key].name = s
  /\ toolToClientMap[key] \in registry
  /\ toolToClientMap[key] \notin Range(connectedClients)

\* C35: after a successful restart of F2, whose policy exposes echo as
\* echoF2, and before a new discovery pass, a call of echoF2 is dispatched as
\* one request to F2's new handle under the original name echo.
C35_RenameSurvivesRestart ==
  (config["F2"] = RenameOnly /\ RestartedUnder("F2", "echoF2")) =>
    LET out == Outcome(CallRequest("echoF2", NoArguments, NoMeta))
    IN  /\ out.error = Undefined
        /\ Len(out.requests) = 1
        /\ out.requests[1].to = toolToClientMap["echoF2"]
        /\ out.requests[1].name = "echo"

\* after the restart a call resolves to the new handle of the backend, and an
\* unrenamed tool is dispatched to it under its own name
RestartKeepsPlainRoute ==
  RestartedUnder("F2", "t1") =>
    LET out == Outcome(CallRequest("t1", NoArguments, NoMeta))
    IN  /\ out.error = Undefined
        /\ Len(out.requests) = 1
        /\ out.requests[1].to = toolToClientMap["t1"]
        /\ out.requests[1].name = "t1"

(***************************************************************************)
(* C36                                                                     *)
(***************************************************************************)
\* every handle the registry or one of the four maps holds
HandlesHeld ==
  registry \cup Range2(toolToClientMap) \cup Range2(customToolToClientMap)
    \cup Range2(promptToClientMap) \cup Range2(resourceToClientMap)

NoRestartInProgress == \A s \in ServerNames : restart[s].pc = "idle"

\* C36: while no restart is in progress, no handle in the registry or in any
\* of the four maps has had its cleanup run; so after a restart that returned
\* null nothing refers to the old handle it cleaned up.
C36_HeldHandlesAreLive ==
  NoRestartInProgress => HandlesHeld \cap closed = {}

(***************************************************************************)
(* C37                                                                     *)
(***************************************************************************)
\* two restartClient invocations for F2 overlap, around a discovery pass;
\* every cleanup closes its transport
NextOverlap ==
  \/ ListToolsBegin(1)
  \/ ListToolsResponse(1, TRUE)
  \/ RestartBegin("F2")
  \/ RestartCleanup("F2", TRUE)
  \/ \E ok \in BOOLEAN : RestartConnect("F2", ok)
  \/ SecondRestartBegin("F2")
  \/ SecondRestartCleanup("F2", TRUE)
  \/ \E ok \in BOOLEAN : SecondRestartConnect("F2", ok)

SpecOverlap == InitRestart /\ [][NextOverlap]_vars

\* no restartClient invocation is awaiting anything
AllRestartsOver ==
  \A s \in ServerNames :
    restart[s].pc = "idle" /\ secondRestart[s].pc = "idle"

\* the registry has at most one handle of each name
OneHandlePerName ==
  \A s \in ServerNames : Cardinality(getClientByName(registry, s)) <= 1

\* C37: the registry never holds two handles of one backend name, and when
\* overlapping restarts of a backend are over, every handle ever connected
\* for it other than the registry's has had its cleanup run.
C37_OverlappingRestartsLeakNothing ==
  /\ OneHandlePerName
  /\ AllRestartsOver =>
       \A h \in everConnected : h \notin registry => h \in closed

(***************************************************************************)
(* C38                                                                     *)
(***************************************************************************)
\* the policy of backend s keeps its tool t out of the plain catalog
PolicyHides(s, t) ==
  t \notin Names(filterTools(<< Tool(t) >>, config[s]))

\* C38: a well-formed call of a composite whose sub-tool route (S, t) is
\* registered is dispatched as one tools/call for t to the handle of the
\* route, whatever the policy of S - also when the policy hides t by its
\* deny-list or by an allow-list without t.
C38_CompositeBypassesPolicy ==
  \A r \in CompositeCallRequests :
    (/\ IsCompositeCall(r) /\ WellFormed(r.arguments)
     /\ customToolKeyOf(r.name, r.arguments.server, r.arguments.tool)
          \in DOMAIN customToolToClientMap) =>
      LET key == customToolKeyOf(r.name, r.arguments.server, r.arguments.tool)
          out == Outcome(r)
      IN  /\ out.error = Undefined
          /\ Len(out.requests) = 1
          /\ out.requests[1].to = customToolToClientMap[key]
          /\ out.requests[1].to.name = r.arguments.server
          /\ out.requests[1].method = "tools/call"
          /\ out.requests[1].name = r.arguments.tool

\* the deny-list of F2 hides echo, the last pass lists no echo of F2, and the
\* call of composite D for F2/echo has been sent to F2 as echo
C38_Witness ==
  /\ Settled /\ Answered("F2")
  /\ config["F2"].hasHidden /\ PolicyHides("F2", "echo")
  /\ ~ListedFrom(listResult.tools, "F2", "echo")
  /\ call.status = "pending" /\ call.name = "D"
  /\ Len(call.requests) = 1
  /\ call.requests[1].to.name = "F2" /\ call.requests[1].name = "echo"

\* the same under an allow-list of F2 that lacks echo
AllowListBypassed ==
  /\ Settled /\ Answered("F2")
  /\ config["F2"].hasExposed /\ PolicyHides("F2", "echo")
  /\ ~ListedFrom(listResult.tools, "F2", "echo")
  /\ call.status = "pending" /\ call.name = "D"
  /\ Len(call.requests) = 1
  /\ call.requests[1].to.name = "F2" /\ call.requests[1].name = "echo"

(***************************************************************************)
(* C39                                                                     *)
(***************************************************************************)
\* startup: no handle yet, createClients connects every server with retries
InitConnect == InitWith({ << >> }, RestartConfigs)

NextConnect ==
  \/ \E creatable \in [ServerNames -> BOOLEAN] : CreateClientsBegin(creatable)
  \/ \E s \in ServerNames, ok \in BOOLEAN : ConnectSettles(s, ok)
  \/ \E s \in ServerNames, ok \in BOOLEAN : CloseSettles(s, ok)
  \/ \E s \in ServerNames : SleepElapses(s)
  \/ CreateClientsReturns

\* every await of a run settles: connect and close answer or time out, the
\* timer of sleep fires
SpecConnect == InitConnect /\ [][NextConnect]_vars /\ WF_vars(NextConnect)

Returned(run) == run.pc \in {"done", "collected"}

\* what holds of the run of server s at every moment
RunIsBounded(s) ==
  LET run == connecting[s]
      between == IF run.attempts = 0 THEN 0 ELSE run.attempts - 1
  IN  /\ run.attempts <= retries /\ run.count <= retries
      /\ \A i \in 1..Len(run.waits) : run.waits[i] = waitFor
      /\ run.pc \in {"connect", "close"} => Len(run.waits) = between
      /\ run.pc = "sleep" => Len(run.waits) = between
      /\ run.pc \in {"close", "sleep"} => run.attempts < retries
      /\ Returned(run) =>
           /\ run.returned \in {"client", "null"}
           /\ Len(run.waits) = between
      /\ (run.pc # "idle" /\ ~run.creatable) =>
           /\ Returned(run) /\ run.returned = "null" /\ run.attempts = 0
      /\ (run.returned = "null" /\ run.creatable) =>
           run.attempts = retries /\ run.count = retries
      /\ run.returned = "client" =>
           run.attempts >= 1 /\ run.count = run.attempts - 1
      /\ getClientByName(registry, s) # {} <=> run.returned = "client"

\* C39: a connectWithRetry run makes at most 3 attempts, waits 2500 ms after
\* a failed attempt only when another attempt follows, returns null without
\* an attempt when no transport can be made, has a handle in the registry
\* exactly when an attempt succeeded, and always returns: a handle or null.
C39_ConnectWithRetryIsBounded ==
  /\ [](\A s \in ServerNames : RunIsBounded(s))
  /\ \A s \in ServerNames :
       (connecting[s].pc # "idle") ~>
         (Returned(connecting[s])
            /\ connecting[s].returned \in {"client", "null"})

\* F1 gave up after three failed attempts and two waits, F2 connected at its
\* second attempt after one wait; createClients has returned F2's handle
C39_Witness ==
  /\ connecting["F1"].pc = "collected" /\ connecting["F1"].returned = "null"
  /\ connecting["F1"].attempts = 3
  /\ connecting["F1"].waits = << waitFor, waitFor >>
  /\ connecting["F2"].returned = "client" /\ connecting["F2"].attempts = 2
  /\ connecting["F2"].waits = << waitFor >>
  /\ registry = {ConnectedClient("F2")}
  /\ connectedClients = << ConnectedClient("F2") >>

\* no transport can be made for F1: null without an attempt
NoTransportNoAttempt ==
  /\ ~connecting["F1"].creatable /\ connecting["F1"].returned = "null"
  /\ connecting["F1"].attempts = 0 /\ connecting["F1"].waits = << >>
  /\ connecting["F2"].returned = "client"

====
